---- MODULE Spec2Model ----
(***************************************************************************)
(* Gitick task engine: focus timer, command parser, view engine,           *)
(* contribution streaks and the task sanitizer, modelled from the sources  *)
(* under src/.  Each subsystem has its own specification (SpecTimer, ...)  *)
(* over its own group of variables; the other groups stay at rest.         *)
(***************************************************************************)
EXTENDS Integers, Sequences, FiniteSets, TLC

VARIABLES
    \* ---- focus timer (App component state) ----
    now,                \* the wall clock, Date.now(), in milliseconds
    focusEndTime,       \* <<>> for null, <<t>> for the end timestamp t
    focusTimeLeft,      \* seconds
    isFocusActive,
    focusModeType,      \* "focus" | "break"
    isFocusActiveRef,   \* the ref mirroring isFocusActive
    clockSteps,         \* how many times the clock has advanced
    timerEdits,         \* how many adjust/preset requests changed the idle time
    timerOp,            \* history: the last timer operation and the state it found
    runStart,           \* history: <<>> or <<[at, left]>>, the startTimer() call
                        \* the current countdown comes from
    \* ---- command parser (TaskInput) ----
    input,              \* the text typed, a sequence of one-character strings
    parseStage,         \* "typed" | "parsed" | "reparsed"
    parsedData,         \* parseTaskInput(input)
    reparsedData,       \* parseTaskInput(parsedData.cleanTitle)
    weekday,            \* today.getDay() as the parser reads it, 0 = Sunday
    \* ---- view engine (taskView, as App renders it) ----
    viewTasks,          \* the task list handed to the view functions
    viewProjects,       \* the known projects
    today,              \* today's local date, a day number of the Calendar
    filter,             \* the selected view
    filteredTasks,      \* getFilteredTasks(tasks, filter, projects)
    taskCounts,         \* getTaskCounts(tasks, projects)
    taskGroups,         \* <<>> or <<groupDashboardTasks(filteredTasks)>>
    \* ---- task store (App, taskSanitizer) ----
    tasks,              \* the task list, newest first
    taskNow,            \* Date.now() as the task handlers read it
    nextId,             \* how many ids createId / randomUUID has handed out
    exportFile,         \* <<>> or <<[json, tasks]>>: the last exported backup
    undoAction,         \* <<>> for undefined, <<task>> for the undo of a deletion
                        \* capturing taskToDelete = task
    undoPair,           \* history: <<>>, <<"deleted", list>> right after a
                        \* deletion that found list, <<"undone", list>> right
                        \* after the first undo of that deletion
    \* ---- sanitizer on its own (taskSanitizer) ----
    sanitizeInput,      \* the parsed JSON value handed to sanitizeTaskList
    sanitizeOutput,     \* <<>>, or <<[threw, tasks]>> once it has run
    \* ---- contribution heatmap (Heatmap) ----
    heatTasks,          \* the tasks prop of Heatmap
    heatToday,          \* the local date new Date() falls on, a Calendar day
    heatStats,          \* the memoized completionMap, maxStreak, currentStreak
    \* ---- projects (App: addProject, deleteProject) ----
    projectList,        \* the projects state of App
    projTasks,          \* the task list as the project handlers see it
    projFilter,         \* the selected view
    projUndo,           \* <<>> for undefined, or <<[prevProjects, projectToDelete,
                        \* tasksToMoveIds]>>: what the offered undo captured
    projSteps,          \* how many handlers have run
    projOp,             \* history: the last handler and the state it found
    importError,        \* SettingsModal: the import error message, "" for none
    \* ---- desktop updater: renderer (useDesktopUpdater, App) ----
    isCheckingDesktopUpdate,
    desktopUpdaterSignalRef,
    promptedAvailableVersionRef,    \* <<>> for null, <<v>> for version v
    promptedDownloadedVersionRef,
    confirmDialog,      \* <<>> for null, or <<[kind, version]>>: the open prompt
    pendingTimers,      \* which of initialTimer and retryTimer are still to fire
    manualChecks,       \* how many manual checks were requested
    \* ---- desktop updater: main process (electron/main.cjs) ----
    updaterCheckTask,   \* <<>> for null, <<caller>> while a check is pending
    updaterDownloadTask,
    externalInstallTask,
    latestAvailableVersion,
    latestDownloadedVersion,
    running,            \* per operation, the underlying tasks in flight
    ipcQueue,           \* statuses and replies on their way to the renderer
    promptLog,          \* history: the versions of the Download prompts opened
                        \* since the last 'not-available' status, in order
    \* ---- persistence of the task list (App effect, utils/storage) ----
    memTasks,           \* the tasks state of App
    storedTasks,        \* <<>> when the tasks key is absent, else <<json>>
    persistTimers,      \* the pending timeouts, each the list it captured
    persistChanges,     \* how many times the task list was set
    writeLog            \* history: the outcome of every writeStoredJson call

parserVars == <<input, parseStage, parsedData, reparsedData, weekday>>

viewVars == <<viewTasks, viewProjects, today, filter, filteredTasks, taskCounts,
             taskGroups>>

storeVars == <<tasks, taskNow, nextId, exportFile, undoAction, undoPair>>

sanitizerVars == <<sanitizeInput, sanitizeOutput>>

heatVars == <<heatTasks, heatToday, heatStats>>

timerVars == <<now, focusEndTime, focusTimeLeft, isFocusActive, focusModeType,
               isFocusActiveRef, clockSteps, timerEdits, timerOp, runStart>>

projectVars == <<projectList, projTasks, projFilter, projUndo, projSteps, projOp,
                 importError>>

updaterVars == <<isCheckingDesktopUpdate,
                 desktopUpdaterSignalRef, promptedAvailableVersionRef,
                 promptedDownloadedVersionRef, confirmDialog, pendingTimers, manualChecks,
                 updaterCheckTask, updaterDownloadTask, externalInstallTask,
                 latestAvailableVersion, latestDownloadedVersion, running, ipcQueue,
                 promptLog>>

persistVars == <<memTasks, storedTasks, persistTimers, persistChanges, writeLog>>

extraVars == <<projectVars, updaterVars, persistVars>>

vars == <<timerVars, parserVars, viewVars, storeVars, heatVars, sanitizerVars, extraVars>>


(***************************************************************************)
(* Command parser: TaskInput.parseTaskInput                                *)
(***************************************************************************)

\* The number of chunks an input is put together from.
MaxChunks == 2

\* The pieces inputs are concatenated from: priority markers, pieces that
\* only form a marker when glued together, tags differing in case, a project
\* reference, date keywords, a plain word and a space.
Chunks == {
    <<"!", "h", "i", "g", "h">>, <<"!", "l", "o", "w">>,
    <<"!", "h", "i">>, <<"g", "h">>,
    <<"#", "a">>, <<"#", "A">>, <<"@", "w", "k">>,
    <<"t", "o", "d", "a", "y">>, <<"t", "o", "m">>,
    <<"n", "e", "x", "t", " ", "w", "e", "e", "k">>,
    <<"x">>, <<" ">> }

\* The project list handed to the parser.
ParserProjects == << <<"W", "k">> >>

RECURSIVE Inputs(_)
Inputs(n) ==
    IF n = 0 THEN { <<>> }
    ELSE Inputs(n - 1) \cup { s \o c : s \in Inputs(n - 1), c \in Chunks }

UpperLetters == <<"A", "B", "C", "D", "E", "F", "G", "H", "I", "J", "K", "L", "M",
                  "N", "O", "P", "Q", "R", "S", "T", "U", "V", "W", "X", "Y", "Z">>
LowerLetters == <<"a", "b", "c", "d", "e", "f", "g", "h", "i", "j", "k", "l", "m",
                  "n", "o", "p", "q", "r", "s", "t", "u", "v", "w", "x", "y", "z">>

Letters == {UpperLetters[i] : i \in 1..26} \cup {LowerLetters[i] : i \in 1..26}

\* String.prototype.toLowerCase, one character
LowerOf == [c \in Letters |->
              IF \E i \in 1..26 : UpperLetters[i] = c
              THEN LowerLetters[CHOOSE i \in 1..26 : UpperLetters[i] = c]
              ELSE c]

toLowerCaseChar(c) == IF c \in Letters THEN LowerOf[c] ELSE c

toLowerCase(s) == [k \in 1..Len(s) |-> toLowerCaseChar(s[k])]

\* \s, \w and the token class [^\s#@!] of the regular expressions
WordChars == Letters \cup {"0", "1", "2", "3", "4", "5", "6", "7", "8", "9", "_"}
IsSpace(c) == c = " "
IsWordChar(c) == c \in WordChars
IsTokenChar(c) == ~IsSpace(c) /\ c \notin {"#", "@", "!"}

SetMin(S) == CHOOSE x \in S : \A y \in S : x <= y

\* Math.max(a, b) and Math.min(a, b)
Max(a, b) == IF a >= b THEN a ELSE b
Min(a, b) == IF a <= b THEN a ELSE b

\* s holds the characters of w from position i on
StartsWithAt(s, i, w) ==
    /\ i + Len(w) - 1 <= Len(s)
    /\ \A k \in 1..Len(w) : s[i + k - 1] = w[k]

\* s without the positions in drop
DropPositions(s, drop) ==
    LET F[k \in 0..Len(s)] ==
            IF k = 0 THEN <<>>
            ELSE IF k \in drop THEN F[k - 1] ELSE Append(F[k - 1], s[k])
    IN F[Len(s)]

\* the positions covered by a sequence of matches [pos, end]
Covered(matches) ==
    UNION { m.pos..m.end : m \in {matches[k] : k \in 1..Len(matches)} }

\* /!(high|medium|low)/i
PriorityWords == << <<"h", "i", "g", "h">>, <<"m", "e", "d", "i", "u", "m">>,
                    <<"l", "o", "w">> >>

PriorityWordAt(s, i) ==
    IF s[i] # "!" THEN <<>>
    ELSE LET rest == toLowerCase(SubSeq(s, i + 1, Len(s)))
             hits == {k \in 1..3 : StartsWithAt(rest, 1, PriorityWords[k])}
         IN IF hits = {} THEN <<>> ELSE PriorityWords[SetMin(hits)]

\* the rightmost match instead of the leftmost
PriorityMatchLast(s) ==
    LET at == {i \in 1..Len(s) : PriorityWordAt(s, i) # <<>>}
    IN IF at = {} THEN <<>>
       ELSE LET i == CHOOSE x \in at : \A y \in at : y <= x
                word == PriorityWordAt(s, i)
            IN <<[pos |-> i, end |-> i + Len(word), word |-> word]>>

\* text.match(priorityRegex): <<>> or <<[pos, end, word]>>, the leftmost match
PriorityMatch(s) ==
    LET at == {i \in 1..Len(s) : PriorityWordAt(s, i) # <<>>}
    IN IF at = {} THEN <<>>
       ELSE LET i == SetMin(at)
                word == PriorityWordAt(s, i)
            IN <<[pos |-> i, end |-> i + Len(word), word |-> word]>>

\* the end of the maximal run of token characters that starts at i
TokenEnd(s, i) ==
    LET stops == {k \in i..Len(s) : ~IsTokenChar(s[k])}
    IN IF stops = {} THEN Len(s) ELSE SetMin(stops) - 1

\* all matches of /#([^\s#@!]+)/gu (sigil "#") or /@([^\s#@!]+)/gu (sigil "@")
\* from position i on, left to right and not overlapping
RECURSIVE TokenMatches(_, _, _)
TokenMatches(s, i, sigil) ==
    IF i >= Len(s) THEN <<>>
    ELSE IF s[i] = sigil /\ IsTokenChar(s[i + 1])
         THEN <<[pos |-> i, end |-> TokenEnd(s, i + 1)]>>
              \o TokenMatches(s, TokenEnd(s, i + 1) + 1, sigil)
         ELSE TokenMatches(s, i + 1, sigil)

\* Array.from(new Set(xs)): the first occurrence of each element, in order
ArrayFromSet(xs) ==
    LET F[k \in 0..Len(xs)] ==
            IF k = 0 THEN <<>>
            ELSE IF \E j \in 1..(k - 1) : xs[j] = xs[k] THEN F[k - 1]
                 ELSE Append(F[k - 1], xs[k])
    IN F[Len(xs)]

\* \b at the gap before position p
WordBoundary(s, p) ==
    LET before == p - 1 >= 1 /\ p - 1 <= Len(s) /\ IsWordChar(s[p - 1])
        after == p >= 1 /\ p <= Len(s) /\ IsWordChar(s[p])
    IN before # after

\* \b w \b matches at position i
WordAt(s, i, w) ==
    /\ WordBoundary(s, i)
    /\ StartsWithAt(s, i, w)
    /\ WordBoundary(s, i + Len(w))

\* /\b(w1|w2|..)\b/.test(s)
TestWords(s, ws) == \E i \in 1..Len(s) : \E k \in 1..Len(ws) : WordAt(s, i, ws[k])

TodayWords == << <<"t", "o", "d", "a", "y">>, <<"t", "o", "d">> >>
TomorrowWords == << <<"t", "o", "m", "o", "r", "r", "o", "w">>, <<"t", "m", "r">>,
                    <<"t", "o", "m">> >>
NextWeekWords == << <<"n", "e", "x", "t", " ", "w", "e", "e", "k">> >>

\* the alternation of the clean-title date pattern, in its order
DateWords == <<TodayWords[1], TodayWords[2], TomorrowWords[1], TomorrowWords[2],
               TomorrowWords[3], NextWeekWords[1]>>

\* all matches of /\b(today|tod|tomorrow|tmr|tom|next week)\b/gi from i on,
\* in the lower-cased text s
RECURSIVE DateMatches(_, _)
DateMatches(s, i) ==
    IF i > Len(s) THEN <<>>
    ELSE LET hits == {k \in 1..Len(DateWords) : WordAt(s, i, DateWords[k])}
         IN IF hits = {} THEN DateMatches(s, i + 1)
            ELSE LET e == i + Len(DateWords[SetMin(hits)]) - 1
                 IN <<[pos |-> i, end |-> e]>> \o DateMatches(s, e + 1)

\* .replace(/\s+/g, ' ').trim()
CollapseAndTrim(s) ==
    LET runs == DropPositions(s, {k \in 2..Len(s) : IsSpace(s[k]) /\ IsSpace(s[k - 1])})
        single == [k \in 1..Len(runs) |-> IF IsSpace(runs[k]) THEN " " ELSE runs[k]]
        first == {k \in 1..Len(single) : ~IsSpace(single[k])}
    IN IF first = {} THEN <<>>
       ELSE SubSeq(single, SetMin(first), CHOOSE k \in first : \A j \in first : j <= k)

\* the same without the || 7
NextMondayOffsetNoWrap(dow) == (1 + 7 - dow) % 7

\* (1 + 7 - today.getDay()) % 7 || 7
NextMondayOffset(dow) ==
    IF (1 + 7 - dow) % 7 = 0 THEN 7 ELSE (1 + 7 - dow) % 7

\* .replace(priorityRegex, ''): the pattern is not global, one match goes
ReplacePriority(s) ==
    LET m == PriorityMatch(s)
    IN IF m = <<>> THEN s ELSE DropPositions(s, m[1].pos..m[1].end)

\* the clean title of parseTaskInput
CleanTitle(text) ==
    LET a == ReplacePriority(text)
        b == DropPositions(a, Covered(TokenMatches(a, 1, "#")))
        c == DropPositions(b, Covered(TokenMatches(b, 1, "@")))
        d == DropPositions(c, Covered(DateMatches(toLowerCase(c), 1)))
    IN CollapseAndTrim(d)

\* projects.find(p => p.toLowerCase() === pName.toLowerCase())
FindProject(projects, pName) ==
    LET hits == {k \in 1..Len(projects) : toLowerCase(projects[k]) = toLowerCase(pName)}
    IN IF hits = {} THEN <<>> ELSE <<projects[SetMin(hits)]>>

\* the weekdays today can be (Date.getDay())
Weekdays == 0..6

\* step 4 of parseTaskInput: <<>> or <<days from today>>
ParseDueDate(lowerText, dow) ==
    IF TestWords(lowerText, TodayWords) THEN <<0>>
    ELSE IF TestWords(lowerText, TomorrowWords) THEN <<1>>
    ELSE IF TestWords(lowerText, NextWeekWords) THEN <<NextMondayOffset(dow)>>
    ELSE <<>>

\* parseTaskInput(text) with the project list in scope: the results it can
\* give, one for each weekday in weekdays that today can be
parseTaskInput(text, projects, weekdays) ==
    LET priorityMatch == PriorityMatch(text)
        tagMatches == TokenMatches(text, 1, "#")
        projectMatch == TokenMatches(text, 1, "@")
        lowerText == toLowerCase(text)
        priority == IF priorityMatch = <<>> THEN <<>> ELSE <<priorityMatch[1].word>>
        tags == ArrayFromSet([k \in 1..Len(tagMatches) |->
                    SubSeq(text, tagMatches[k].pos + 1, tagMatches[k].end)])
        projectFound ==
            IF projectMatch = <<>> THEN <<>>
            ELSE FindProject(projects,
                             SubSeq(text, projectMatch[1].pos + 1, projectMatch[1].end))
        cleanTitle == CleanTitle(text)
        dueDates == {ParseDueDate(lowerText, dow) : dow \in weekdays}
    IN { [priority |-> priority, tags |-> tags, projectFound |-> projectFound,
          dueDate |-> due, cleanTitle |-> cleanTitle] : due \in dueDates }

NoParse == [priority |-> <<>>, tags |-> <<>>, projectFound |-> <<>>,
            dueDate |-> <<>>, cleanTitle |-> <<>>]

ParserInit ==
    /\ input \in Inputs(MaxChunks)
    /\ weekday \in Weekdays
    /\ parseStage = "typed"
    /\ parsedData = NoParse
    /\ reparsedData = NoParse

\* the real-time parsing effect / submit: parse what was typed
ParseInput ==
    /\ parseStage = "typed"
    /\ parsedData' \in parseTaskInput(input, ParserProjects, {weekday})
    /\ parseStage' = "parsed"
    /\ UNCHANGED <<input, reparsedData, weekday>>

\* the clean title is fed to the parser again
ReparseCleanTitle ==
    /\ parseStage = "parsed"
    /\ reparsedData' \in parseTaskInput(parsedData.cleanTitle, ParserProjects, {weekday})
    /\ parseStage' = "reparsed"
    /\ UNCHANGED <<input, parsedData, weekday>>

ParserIdle ==
    /\ input = <<>>
    /\ weekday = 0
    /\ parseStage = "typed"
    /\ parsedData = NoParse
    /\ reparsedData = NoParse


(***************************************************************************)
(* Dates: utils/date                                                       *)
(***************************************************************************)

\* A stretch of the calendar around the end of February 2024: a local date
\* (a Date at local midnight) is a day number into it.
Calendar == << [year |-> 2024, month |-> 2, day |-> 27], [year |-> 2024, month |-> 2, day |-> 28],
               [year |-> 2024, month |-> 2, day |-> 29], [year |-> 2024, month |-> 3, day |-> 1],
               [year |-> 2024, month |-> 3, day |-> 2], [year |-> 2024, month |-> 3, day |-> 3],
               [year |-> 2024, month |-> 3, day |-> 4], [year |-> 2024, month |-> 3, day |-> 5],
               [year |-> 2024, month |-> 3, day |-> 6], [year |-> 2024, month |-> 3, day |-> 7],
               [year |-> 2024, month |-> 3, day |-> 8], [year |-> 2024, month |-> 3, day |-> 9],
               [year |-> 2024, month |-> 3, day |-> 10], [year |-> 2024, month |-> 3, day |-> 11] >>

Digits == <<"0", "1", "2", "3", "4", "5", "6", "7", "8", "9">>
IsDigit(c) == \E k \in 1..10 : Digits[k] = c

\* the code unit of a character of an ISO date
CharCode(c) == IF c = "-" THEN 45 ELSE 47 + CHOOSE k \in 1..10 : Digits[k] = c

\* String(n).padStart(2, '0') and the four digits of a year
Pad2(n) == <<Digits[(n \div 10) + 1], Digits[(n % 10) + 1]>>
Year4(n) == Pad2(n \div 100) \o Pad2(n % 100)

\* toLocalIsoDate(date): `${year}-${month}-${day}`, zero padded
toLocalIsoDate(day) ==
    Year4(Calendar[day].year) \o <<"-">> \o Pad2(Calendar[day].month)
        \o <<"-">> \o Pad2(Calendar[day].day)

\* todayLocalIsoDate() and addDaysLocalIsoDate(days), today being day t
todayLocalIsoDate(t) == toLocalIsoDate(t)
addDaysLocalIsoDate(days, t) == toLocalIsoDate(t + days)

\* a.localeCompare(b) on two ISO date strings: negative, 0 or positive
IsoCompare(a, b) ==
    LET diff == {k \in 1..Len(a) : k <= Len(b) /\ a[k] # b[k]}
    IN IF diff = {} THEN (IF Len(a) < Len(b) THEN -1 ELSE IF Len(a) > Len(b) THEN 1 ELSE 0)
       ELSE IF CharCode(a[SetMin(diff)]) < CharCode(b[SetMin(diff)]) THEN -1 ELSE 1

\* a < b on two ISO date strings
IsoLess(a, b) == IsoCompare(a, b) < 0

\* the horizon day itself left out
IsoLeqExclusive(a, b) == IsoCompare(a, b) < 0

\* a <= b on two ISO date strings
IsoLeq(a, b) == IsoCompare(a, b) <= 0

(***************************************************************************)
(* View engine: utils/taskView                                             *)
(***************************************************************************)

\* The length of the task lists handed to the view functions.
MaxViewTasks == 2

\* PRIORITY_SCORE
PRIORITY_SCORE == [high |-> 3, medium |-> 2, low |-> 1]

\* The day today is, and the due dates taskSeq carry relative to it.
TodayChoices == {2}
DueOffsets == {0, 7, 8}
SortDueOffsets == {0, 1}

\* A task as the view functions read it: dueDate is <<>> (unset) or <<iso>>,
\* list is "" when unset.
ViewTask(completed, priority, dueDate, list, createdAt) ==
    [completed |-> completed, priority |-> priority, dueDate |-> dueDate,
     list |-> list, createdAt |-> createdAt]

\* Tasks that differ in completion, due date and list (membership in views)
MembershipTasks(t) ==
    { ViewTask(c, "medium", d, l, 1) :
        c \in BOOLEAN,
        d \in {<<>>} \cup {<<addDaysLocalIsoDate(o, t)>> : o \in DueOffsets},
        l \in {"Inbox", "today"} }
    \cup { ViewTask(c, "medium", <<>>, l, 1) : c \in BOOLEAN, l \in {"", "Work"} }

\* Open tasks that differ in due date around today (dashboard buckets)
DashboardDueOffsets == {-1, 0, 1, 2}
DashboardTasks(t) ==
    { ViewTask(FALSE, "medium", <<addDaysLocalIsoDate(o, t)>>, "Inbox", 1) :
        o \in DashboardDueOffsets }

\* Incomplete tasks that differ in priority, due date and creation time (order)
OrderTasks(t) ==
    { ViewTask(FALSE, p, d, "Inbox", c) :
        p \in {"high", "medium", "low"},
        d \in {<<>>} \cup {<<addDaysLocalIsoDate(o, t)>> : o \in SortDueOffsets},
        c \in {1, 2} }

\* the sequences over S of length at most n
RECURSIVE SeqsUpTo(_, _)
SeqsUpTo(S, n) ==
    IF n = 0 THEN { <<>> }
    ELSE SeqsUpTo(S, n - 1) \cup { Append(q, x) : q \in SeqsUpTo(S, n - 1), x \in S }

\* every task gets its position as id
WithIds(ts) == [k \in 1..Len(ts) |->
    [id |-> k, completed |-> ts[k].completed, priority |-> ts[k].priority,
     dueDate |-> ts[k].dueDate, list |-> ts[k].list, createdAt |-> ts[k].createdAt]]

Filter(seq, Keep(_)) == SelectSeq(seq, Keep)

\* the filter stage of getFilteredTasks
FilterStage(taskSeq, view, projects, t) ==
    LET todayStr == todayLocalIsoDate(t)
        next7daysStr == addDaysLocalIsoDate(7, t)
        IsCompleted(task) == task.completed
        InNext7Days(task) ==
            ~task.completed /\ task.dueDate # <<>> /\ IsoLeq(task.dueDate[1], next7daysStr)
        DueToday(task) == ~task.completed /\ task.dueDate = <<todayStr>>
        InInbox(task) == ~task.completed /\ (task.list = "Inbox" \/ task.list = "")
        InProject(task) == task.list = view /\ ~task.completed
        Active(task) == ~task.completed
    IN IF view = "completed" THEN Filter(taskSeq, IsCompleted)
       ELSE IF view = "next7days" THEN Filter(taskSeq, InNext7Days)
       ELSE IF view = "today" THEN Filter(taskSeq, DueToday)
       ELSE IF view = "inbox" THEN Filter(taskSeq, InInbox)
       ELSE IF \E k \in 1..Len(projects) : projects[k] = view THEN Filter(taskSeq, InProject)
       ELSE Filter(taskSeq, Active)

\* the sort comparator of getFilteredTasks
CompareTasks(taskA, taskB) ==
    IF taskA.completed # taskB.completed THEN (IF taskA.completed THEN 1 ELSE -1)
    ELSE IF PRIORITY_SCORE[taskA.priority] # PRIORITY_SCORE[taskB.priority]
         THEN PRIORITY_SCORE[taskB.priority] - PRIORITY_SCORE[taskA.priority]
    ELSE IF taskA.dueDate # <<>> /\ taskB.dueDate # <<>>
         THEN IsoCompare(taskA.dueDate[1], taskB.dueDate[1])
    ELSE IF taskA.dueDate # <<>> /\ taskB.dueDate = <<>> THEN -1
    ELSE IF taskA.dueDate = <<>> /\ taskB.dueDate # <<>> THEN 1
    ELSE taskB.createdAt - taskA.createdAt

\* x put before the elements it ties with
InsertSortedBeforeTies(q, x) ==
    LET after == {k \in 1..Len(q) : CompareTasks(q[k], x) >= 0}
        at == IF after = {} THEN Len(q) + 1 ELSE SetMin(after)
    IN SubSeq(q, 1, at - 1) \o <<x>> \o SubSeq(q, at, Len(q))

\* x put into the sorted sequence q, behind everything that does not sort after it
InsertSorted(q, x) ==
    LET after == {k \in 1..Len(q) : CompareTasks(q[k], x) > 0}
        at == IF after = {} THEN Len(q) + 1 ELSE SetMin(after)
    IN SubSeq(q, 1, at - 1) \o <<x>> \o SubSeq(q, at, Len(q))

\* [...filtered].sort(comparator): Array.prototype.sort is stable
StableSort(seq) ==
    LET F[k \in 0..Len(seq)] ==
            IF k = 0 THEN <<>> ELSE InsertSorted(F[k - 1], seq[k])
    IN F[Len(seq)]

getFilteredTasks(taskSeq, view, projects, t) ==
    StableSort(FilterStage(taskSeq, view, projects, t))

\* today's tasks land in Overdue
groupDashboardTasksLateToday(taskSeq, t) ==
    LET todayStr == todayLocalIsoDate(t)
        tomorrowStr == addDaysLocalIsoDate(1, t)
        IsOverdue(task) == task.dueDate # <<>> /\ IsoLeq(task.dueDate[1], todayStr)
        IsTomorrow(task) == ~IsOverdue(task) /\ task.dueDate = <<tomorrowStr>>
        IsLater(task) == ~IsOverdue(task) /\ ~IsTomorrow(task)
    IN [Overdue |-> SelectSeq(taskSeq, IsOverdue), Today |-> <<>>,
        Tomorrow |-> SelectSeq(taskSeq, IsTomorrow),
        Next7Days |-> SelectSeq(taskSeq, IsLater)]

\* groupDashboardTasks(tasks): each task goes to the first bucket whose test
\* it passes, Next7Days standing for the key 'Next 7 Days'
groupDashboardTasks(taskSeq, t) ==
    LET todayStr == todayLocalIsoDate(t)
        tomorrowStr == addDaysLocalIsoDate(1, t)
        IsOverdue(task) == task.dueDate # <<>> /\ IsoLess(task.dueDate[1], todayStr)
        IsToday(task) == ~IsOverdue(task) /\ task.dueDate = <<todayStr>>
        IsTomorrow(task) == ~IsOverdue(task) /\ ~IsToday(task)
                            /\ task.dueDate = <<tomorrowStr>>
        IsLater(task) == ~IsOverdue(task) /\ ~IsToday(task) /\ ~IsTomorrow(task)
    IN [Overdue |-> SelectSeq(taskSeq, IsOverdue),
        Today |-> SelectSeq(taskSeq, IsToday),
        Tomorrow |-> SelectSeq(taskSeq, IsTomorrow),
        Next7Days |-> SelectSeq(taskSeq, IsLater)]

\* the taskGroups memo of App
TaskGroupsOf(view, filtered, t) ==
    IF view = "next7days" THEN <<groupDashboardTasks(filtered, t)>> ELSE <<>>

\* counts[key] += 1 when the object has that key
Bump(counts, key) ==
    IF key \in DOMAIN counts THEN [counts EXCEPT ![key] = @ + 1] ELSE counts

\* the body of taskSeq.forEach in getTaskCounts
CountTask(counts, task, t) ==
    IF task.completed THEN counts
    ELSE LET c1 == IF task.list = "Inbox" \/ task.list = ""
                   THEN Bump(counts, "inbox") ELSE counts
             c2 == IF task.dueDate = <<todayLocalIsoDate(t)>>
                   THEN Bump(c1, "today") ELSE c1
             c3 == IF task.dueDate # <<>>
                      /\ IsoLeq(task.dueDate[1], addDaysLocalIsoDate(7, t))
                   THEN Bump(c2, "next7days") ELSE c2
         IN IF task.list # "" THEN Bump(c3, task.list) ELSE c3

getTaskCounts(taskSeq, projects, t) ==
    LET keys == {"inbox", "today", "next7days"} \cup {projects[k] : k \in 1..Len(projects)}
        F[k \in 0..Len(taskSeq)] ==
            IF k = 0 THEN [key \in keys |-> 0] ELSE CountTask(F[k - 1], taskSeq[k], t)
    IN F[Len(taskSeq)]

\* the views the sidebar offers
FilterChoices(projects) ==
    {"all", "today", "next7days", "inbox", "completed"}
        \cup {projects[k] : k \in 1..Len(projects)}

ViewInit ==
    /\ today \in TodayChoices
    /\ viewTasks \in { WithIds(ts) : ts \in SeqsUpTo(MembershipTasks(today), MaxViewTasks)
                                        \cup SeqsUpTo(OrderTasks(today), MaxViewTasks)
                                        \cup SeqsUpTo(DashboardTasks(today), MaxViewTasks) }
    /\ viewProjects = <<"Work", "today">>
    /\ filter = "next7days"
    /\ filteredTasks = getFilteredTasks(viewTasks, "next7days", viewProjects, today)
    /\ taskCounts = getTaskCounts(viewTasks, viewProjects, today)
    /\ taskGroups = TaskGroupsOf("next7days", filteredTasks, today)

ViewIdle ==
    /\ today = 2
    /\ viewTasks = <<>>
    /\ viewProjects = <<>>
    /\ filter = "next7days"
    /\ filteredTasks = <<>>
    /\ taskCounts = [key \in {"inbox", "today", "next7days"} |-> 0]
    /\ taskGroups = <<[Overdue |-> <<>>, Today |-> <<>>, Tomorrow |-> <<>>, Next7Days |-> <<>>]>>

\* setFilter(view) and the render that follows: the memos that depend on
\* the filter are computed again, taskCounts (over [projects, tasks]) is kept
setFilter(view) ==
    /\ filter' = view
    /\ filteredTasks' = getFilteredTasks(viewTasks, view, viewProjects, today)
    /\ taskGroups' = TaskGroupsOf(view, filteredTasks', today)
    /\ UNCHANGED <<viewTasks, viewProjects, today, taskCounts>>

(***************************************************************************)
(* Task sanitizer: utils/taskSanitizer                                     *)
(***************************************************************************)

\* A JSON value is <<kind>> or <<kind, payload>>; a string's payload is its
\* characters, an array's its items, an object's the record of its fields
\* (a field the object lacks holds Undefined).
Undefined == <<"undefined">>
JsonString(chars) == <<"string", chars>>
JsonNumber(n) == <<"number", n>>
JsonBoolean(b) == <<"boolean", b>>
JsonArray(items) == <<"array", items>>
JsonObject(fields) == <<"object", fields>>

IsString(v) == v[1] = "string"
IsNumber(v) == v[1] = "number"
IsArray(v) == v[1] = "array"

\* Boolean(value)
ToBoolean(v) ==
    CASE v[1] = "boolean" -> v[2]
      [] v[1] = "number" -> v[2] # 0
      [] v[1] = "string" -> v[2] # <<>>
      [] v[1] \in {"array", "object"} -> TRUE
      [] OTHER -> FALSE

\* enum Priority
Priority == [LOW |-> <<"l", "o", "w">>,
             MEDIUM |-> <<"m", "e", "d", "i", "u", "m">>,
             HIGH |-> <<"h", "i", "g", "h">>]

INBOX == <<"I", "n", "b", "o", "x">>

isPriority(v) == IsString(v) /\ v[2] \in {Priority.HIGH, Priority.MEDIUM, Priority.LOW}

\* ISO_DATE_RE.test(s): /^\d{4}-\d{2}-\d{2}$/
ISO_DATE_RE(str) ==
    /\ Len(str) = 10
    /\ \A k \in 1..10 : IF k \in {5, 8} THEN str[k] = "-" ELSE IsDigit(str[k])

SetMax(S) == CHOOSE x \in S : \A y \in S : x >= y

\* nothing is trimmed
TrimNothing(str) == str

\* s.trim()
Trim(str) ==
    LET keep == {k \in 1..Len(str) : ~IsSpace(str[k])}
    IN IF keep = {} THEN <<>> ELSE SubSeq(str, SetMin(keep), SetMax(keep))

\* createId() / crypto.randomUUID(): the n-th fresh id
createId(n) == <<"u", "i", "d", Digits[n + 1]>>

\* normalizeTags(value)
normalizeTags(value) ==
    IF ~IsArray(value) THEN <<>>
    ELSE LET strings == SelectSeq(value[2], IsString)
             trimmed == [k \in 1..Len(strings) |-> Trim(strings[k][2])]
             drop == {k \in 1..Len(trimmed) :
                        \/ trimmed[k] = <<>>
                        \/ \E j \in 1..(k - 1) :
                              toLowerCase(trimmed[j]) = toLowerCase(trimmed[k])}
         IN DropPositions(trimmed, drop)

\* normalizeTask(raw): <<>> for null, else <<task>>; t is Date.now() and
\* freshId what createId() returns.  description and subtasks are carried
\* by the code too and are left out here.
normalizeTask(raw, t, freshId) ==
    IF raw[1] # "object" THEN <<>>
    ELSE LET item == raw[2]
             title == IF IsString(item.title) THEN Trim(item.title[2]) ELSE <<>>
             completed == ToBoolean(item.completed)
             createdAt == IF IsNumber(item.createdAt) THEN item.createdAt[2] ELSE t
             completedAt == IF completed /\ IsNumber(item.completedAt)
                            THEN <<item.completedAt[2]>> ELSE <<>>
             dueDate == IF IsString(item.dueDate) /\ ISO_DATE_RE(item.dueDate[2])
                        THEN <<item.dueDate[2]>> ELSE <<>>
         IN IF title = <<>> THEN <<>>
            ELSE << [id |-> IF IsString(item.id) /\ Trim(item.id[2]) # <<>>
                            THEN item.id[2] ELSE freshId,
                     title |-> title,
                     completed |-> completed,
                     completedAt |-> completedAt,
                     priority |-> IF isPriority(item.priority)
                                  THEN item.priority[2] ELSE Priority.MEDIUM,
                     dueDate |-> dueDate,
                     tags |-> normalizeTags(item.tags),
                     list |-> IF IsString(item.list) /\ Trim(item.list[2]) # <<>>
                              THEN Trim(item.list[2]) ELSE INBOX,
                     createdAt |-> createdAt] >>

\* does normalizeTask(raw) call createId()
TakesFreshId(raw, t) ==
    /\ normalizeTask(raw, t, <<>>) # <<>>
    /\ ~(IsString(raw[2].id) /\ Trim(raw[2].id[2]) # <<>>)

\* the records are normalized and none is rekeyed
sanitizeTaskListNoRekey(value, t, n0) ==
    LET raws == value[2]
        Norm[k \in 0..Len(raws)] ==
            IF k = 0 THEN [out |-> <<>>, n |-> n0]
            ELSE [out |-> Norm[k - 1].out \o normalizeTask(raws[k], t, createId(Norm[k - 1].n)),
                  n |-> IF TakesFreshId(raws[k], t) THEN Norm[k - 1].n + 1 ELSE Norm[k - 1].n]
    IN [tasks |-> Norm[Len(raws)].out, nextId |-> Norm[Len(raws)].n]

\* sanitizeTaskList(value) for an array: the tasks and the ids handed out
\* so far, n0 of them before the call
sanitizeTaskList(value, t, n0) ==
    LET raws == value[2]
        Norm[k \in 0..Len(raws)] ==
            IF k = 0 THEN [out |-> <<>>, n |-> n0]
            ELSE [out |-> Norm[k - 1].out \o normalizeTask(raws[k], t, createId(Norm[k - 1].n)),
                  n |-> IF TakesFreshId(raws[k], t) THEN Norm[k - 1].n + 1 ELSE Norm[k - 1].n]
        mapped == Norm[Len(raws)].out
        Rekey[k \in 0..Len(mapped)] ==
            IF k = 0 THEN [out |-> <<>>, seenIds |-> {}, n |-> Norm[Len(raws)].n]
            ELSE LET prev == Rekey[k - 1]
                     task == mapped[k]
                 IN IF task.id \notin prev.seenIds
                    THEN [out |-> Append(prev.out, task),
                          seenIds |-> prev.seenIds \cup {task.id}, n |-> prev.n]
                    ELSE [out |-> Append(prev.out, [task EXCEPT !.id = createId(prev.n)]),
                          seenIds |-> prev.seenIds \cup {createId(prev.n)},
                          n |-> prev.n + 1]
    IN [tasks |-> Rekey[Len(mapped)].out, nextId |-> Rekey[Len(mapped)].n]

\* JSON.parse(JSON.stringify(task)): an undefined field is left out
JsonOfTask(task) ==
    JsonObject([id |-> JsonString(task.id),
                title |-> JsonString(task.title),
                completed |-> JsonBoolean(task.completed),
                completedAt |-> IF task.completedAt = <<>> THEN Undefined
                                ELSE JsonNumber(task.completedAt[1]),
                priority |-> JsonString(task.priority),
                dueDate |-> IF task.dueDate = <<>> THEN Undefined
                            ELSE JsonString(task.dueDate[1]),
                tags |-> JsonArray([k \in 1..Len(task.tags) |-> JsonString(task.tags[k])]),
                list |-> JsonString(task.list),
                createdAt |-> JsonNumber(task.createdAt)])

\* JSON.parse(JSON.stringify(tasks, null, 2))
JsonOfTasks(taskSeq) == JsonArray([k \in 1..Len(taskSeq) |-> JsonOfTask(taskSeq[k])])

\* a record of a backup file
RawTask(id, title, completed, completedAt, tags) ==
    JsonObject([id |-> id, title |-> title, completed |-> completed,
                completedAt |-> completedAt, priority |-> Undefined,
                dueDate |-> Undefined, tags |-> tags, list |-> Undefined,
                createdAt |-> Undefined])

(***************************************************************************)
(* The sanitizer on the records of a file                                  *)
(***************************************************************************)

\* The number of records of a file.
MaxFileLen == 3

\* the ids and titles the records of a file carry, and the items that are
\* no records at all
SanitizerIds == { JsonString(<<"t", "1">>), JsonString(<<"t", "2">>), Undefined }
SanitizerTitles == { JsonString(<<"a">>), JsonString(<<" ">>),
                     JsonNumber(1), Undefined }
SanitizerItems ==
    { RawTask(id, title, Undefined, Undefined, Undefined) :
        id \in SanitizerIds, title \in SanitizerTitles }
    \cup { <<"null">>, JsonString(<<"a">>) }

\* every record carries its position in the file as createdAt
MarkRecords(raws) ==
    [k \in 1..Len(raws) |->
        IF raws[k][1] = "object"
        THEN JsonObject([raws[k][2] EXCEPT !.createdAt = JsonNumber(k)])
        ELSE raws[k]]

SanitizerInit ==
    /\ sanitizeInput \in {JsonNumber(7)}
          \cup {JsonArray(MarkRecords(raws)) : raws \in SeqsUpTo(SanitizerItems, MaxFileLen)}
    /\ sanitizeOutput = <<>>

SanitizerIdle ==
    /\ sanitizeInput = JsonArray(<<>>)
    /\ sanitizeOutput = <<>>

\* sanitizeTaskList(value): it throws unless the value is an array
runSanitizer ==
    /\ sanitizeOutput = <<>>
    /\ sanitizeOutput' =
          IF IsArray(sanitizeInput)
          THEN <<[threw |-> FALSE, tasks |-> sanitizeTaskList(sanitizeInput, taskNow, nextId).tasks]>>
          ELSE <<[threw |-> TRUE, tasks |-> <<>>]>>
    /\ UNCHANGED sanitizeInput

(***************************************************************************)
(* Task store: App, TaskInput, StagingPanel, SettingsModal                 *)
(***************************************************************************)

\* How many tasks the add box may pile up, and the instant of the last
\* handler that runs (the first runs at instant 1).
MaxTasks == 2
MaxTaskSteps == 4

\* The files a user imports, and what local storage can hold at start.
ImportFiles ==
    { JsonNumber(7),
      JsonArray(<<>>),
      JsonArray(<< RawTask(Undefined, Undefined, Undefined, Undefined, Undefined) >>),
      JsonArray(<< RawTask(JsonString(<<"t", "1">>), JsonString(<<"a">>),
                           JsonBoolean(TRUE), Undefined, Undefined) >>),
      JsonArray(<< RawTask(JsonString(<<"t", "1">>), JsonString(<<"a">>),
                           JsonBoolean(FALSE), JsonNumber(5),
                           JsonArray(<< JsonString(<<" ", "b">>), JsonString(<<"B">>) >>)),
                   JsonString(<<"a">>),
                   RawTask(JsonString(<<"t", "1">>), JsonString(<<" ", "b", " ">>),
                           JsonBoolean(TRUE), JsonNumber(5), Undefined) >>) }

\* createOnboardingTasks(now), titles and tags shortened
createOnboardingTasks(t) ==
    << [id |-> <<"w", "1">>, title |-> <<"W">>, completed |-> FALSE, completedAt |-> <<>>,
        priority |-> Priority.HIGH, dueDate |-> <<>>, tags |-> << <<"w">>, <<"g">> >>,
        list |-> INBOX, createdAt |-> t],
       [id |-> <<"w", "2">>, title |-> <<"T">>, completed |-> FALSE, completedAt |-> <<>>,
        priority |-> Priority.MEDIUM, dueDate |-> <<>>, tags |-> << <<"f">>, <<"s">> >>,
        list |-> INBOX, createdAt |-> t - 1000],
       [id |-> <<"w", "3">>, title |-> <<"E">>, completed |-> FALSE, completedAt |-> <<>>,
        priority |-> Priority.LOW, dueDate |-> <<>>, tags |-> << <<"p">> >>,
        list |-> <<"S", "t", "u", "d", "y">>, createdAt |-> t - 2000] >>

\* useState initializer of tasks: readStoredJson(keys, null, sanitizeTaskList)
\* and the onboarding tasks when nothing usable is stored
StoreInit ==
    /\ taskNow = 1
    /\ exportFile = <<>>
    /\ undoAction = <<>>
    /\ undoPair = <<>>
    /\ \E stored \in {Undefined} \cup ImportFiles :
          IF IsArray(stored)
          THEN /\ tasks = sanitizeTaskList(stored, taskNow, 0).tasks
               /\ nextId = sanitizeTaskList(stored, taskNow, 0).nextId
          ELSE /\ tasks = createOnboardingTasks(taskNow)
               /\ nextId = 0

StoreIdle ==
    /\ taskNow = 1
    /\ exportFile = <<>>
    /\ undoAction = <<>>
    /\ undoPair = <<>>
    /\ tasks = <<>>
    /\ nextId = 0

\* every handler runs at a later instant
Later == taskNow < MaxTaskSteps /\ taskNow' = taskNow + 1

\* a handler that shows no toast leaves the offered undo as it is
keepsToast == UNCHANGED undoAction /\ undoPair' = <<>>

\* showToast(message) without an action withdraws the offered undo
showToast == undoAction' = <<>> /\ undoPair' = <<>>

\* addTask(newTaskData)
addTask(newTaskData) ==
    /\ tasks' = << [id |-> createId(nextId),
                    title |-> newTaskData.title,
                    completed |-> newTaskData.completed,
                    completedAt |-> <<>>,
                    priority |-> newTaskData.priority,
                    dueDate |-> newTaskData.dueDate,
                    tags |-> newTaskData.tags,
                    list |-> newTaskData.list,
                    createdAt |-> taskNow] >> \o tasks
    /\ nextId' = nextId + 1

\* what is typed into the add box
SubmitInputs == { <<"x">>, <<"#", "a", " ", "#", "A">> }

\* TaskInput submit
submit(text) ==
    /\ Later
    /\ Len(tasks) < MaxTasks
    /\ Trim(text) # <<>>
    /\ \E parsed \in parseTaskInput(text, ParserProjects, Weekdays) :
          addTask([title |-> IF parsed.cleanTitle # <<>> THEN parsed.cleanTitle ELSE text,
                   completed |-> FALSE,
                   priority |-> IF parsed.priority # <<>> THEN parsed.priority[1]
                                ELSE Priority.MEDIUM,
                   tags |-> parsed.tags,
                   dueDate |-> IF parsed.dueDate # <<>>
                               THEN <<addDaysLocalIsoDate(parsed.dueDate[1], today)>>
                               ELSE <<todayLocalIsoDate(today)>>,
                   list |-> IF parsed.projectFound # <<>> THEN parsed.projectFound[1]
                            ELSE INBOX])
    /\ keepsToast
    /\ UNCHANGED exportFile

\* performToggle(id)
performToggle(id) ==
    /\ Later
    /\ tasks' = [k \in 1..Len(tasks) |->
                    IF tasks[k].id = id
                    THEN [tasks[k] EXCEPT !.completed = ~tasks[k].completed,
                                          !.completedAt = IF ~tasks[k].completed
                                                          THEN <<taskNow>> ELSE <<>>]
                    ELSE tasks[k]]
    /\ keepsToast
    /\ UNCHANGED <<nextId, exportFile>>

\* updateTask(updatedTask)
updateTask(updatedTask) ==
    LET normalizedTask ==
            IF updatedTask.completed /\ updatedTask.completedAt = <<>>
            THEN [updatedTask EXCEPT !.completedAt = <<taskNow>>]
            ELSE updatedTask
    IN /\ tasks' = [k \in 1..Len(tasks) |->
                       IF tasks[k].id = normalizedTask.id THEN normalizedTask ELSE tasks[k]]
       /\ keepsToast
       /\ UNCHANGED <<nextId, exportFile>>

\* what the title field of the detail panel is edited to
TitleEdits == { <<>>, <<"x", " ">> }

\* StagingPanel, title textarea: onUpdate({...task, title: e.target.value})
editTitle(k, value) ==
    /\ Later
    /\ updateTask([tasks[k] EXCEPT !.title = value])

\* what is typed into the tag field of the detail panel
NewTags == { <<"#", "A">> }

\* StagingPanel handleAddTag
handleAddTag(k, newTag) ==
    LET trimmed == Trim(newTag)
        cleanTag == IF trimmed # <<>> /\ trimmed[1] = "#" THEN Tail(trimmed) ELSE trimmed
    IN /\ Later
       /\ cleanTag # <<>>
       /\ \A j \in 1..Len(tasks[k].tags) : tasks[k].tags[j] # cleanTag
       /\ updateTask([tasks[k] EXCEPT !.tags = Append(tasks[k].tags, cleanTag)])

\* How long the list may get by undoing.
MaxUndoLen == 3

\* deleteTask(id): the toast offers an undo that holds taskToDelete
deleteTask(id) ==
    LET Others(task) == task.id # id
        taskToDelete == tasks[SetMin({k \in 1..Len(tasks) : tasks[k].id = id})]
    IN /\ Later
       /\ \E k \in 1..Len(tasks) : tasks[k].id = id
       /\ tasks' = SelectSeq(tasks, Others)
       /\ undoAction' = <<taskToDelete>>
       /\ undoPair' = <<"deleted", tasks>>
       /\ UNCHANGED <<nextId, exportFile>>

\* StatusBar, the Undo button: onClick = undoAction, which stays offered
undo ==
    /\ undoAction # <<>>
    /\ Len(tasks) < MaxUndoLen
    /\ tasks' = <<undoAction[1]>> \o tasks
    /\ undoPair' = IF undoPair # <<>> /\ undoPair[1] = "deleted"
                   THEN <<"undone", undoPair[2]>> ELSE <<>>
    /\ UNCHANGED <<taskNow, nextId, exportFile, undoAction>>

\* the timeout showToast sets: after 4 s the message and the undo go
toastTimeout ==
    /\ undoAction # <<>>
    /\ undoAction' = <<>>
    /\ UNCHANGED <<tasks, taskNow, nextId, exportFile, undoPair>>

\* SettingsModal handleExport
handleExport ==
    /\ Later
    /\ exportFile' = <<[json |-> JsonOfTasks(tasks), tasks |-> tasks]>>
    /\ keepsToast
    /\ UNCHANGED <<tasks, nextId>>

\* SettingsModal handleImport and App handleImportData
handleImport(json) ==
    /\ Later
    /\ IF IsArray(json) /\ sanitizeTaskList(json, taskNow, nextId).tasks # <<>>
       THEN /\ tasks' = sanitizeTaskList(json, taskNow, nextId).tasks
            /\ nextId' = sanitizeTaskList(json, taskNow, nextId).nextId
            /\ showToast
       ELSE /\ keepsToast
            /\ UNCHANGED <<tasks, nextId>>
    /\ UNCHANGED exportFile

(***************************************************************************)
(* Projects: App.addProject, App.deleteProject                             *)
(***************************************************************************)

\* How many project handlers run, and how long the task list is at start.
MaxProjectSteps == 3
MaxProjectTasks == 2

\* PROJECTS of ./constants, which is not among the sources: one default
\* project stands for them
DEFAULT_PROJECTS == << <<"W", "k">> >>

\* the names typed into the sidebar, and the projectList kept besides the default
ProjectNames == { <<"p">>, <<"Q">> }

ProjectTask(id, list, completed) ==
    [id |-> id, title |-> <<"a">>, completed |-> completed, completedAt |-> <<>>,
     priority |-> Priority.MEDIUM, dueDate |-> <<>>, tags |-> <<>>,
     list |-> list, createdAt |-> 1]

Includes(seq, x) == \E k \in 1..Len(seq) : seq[k] = x

ProjectSnapshot(name) ==
    [name |-> name, preProjects |-> projectList, preTasks |-> projTasks, undo |-> projUndo,
     file |-> <<>>]

\* The files chosen for import: a text JSON.parse rejects, and parsed values.
SyntaxError == <<"syntaxError">>

ProjectFiles ==
    { SyntaxError,
      JsonNumber(7),
      JsonArray(<<>>),
      JsonArray(<< RawTask(JsonString(<<"t", "1">>), JsonString(<<" ">>),
                           Undefined, Undefined, Undefined),
                   JsonString(<<"a">>) >>),
      JsonArray(<< JsonObject([RawTask(JsonString(<<"t", "1">>), JsonString(<<"a">>),
                                       Undefined, Undefined, Undefined)[2]
                                  EXCEPT !.list = JsonString(<<"Q">>)]),
                   RawTask(Undefined, Undefined, Undefined, Undefined, Undefined),
                   RawTask(Undefined, JsonString(<<"b">>), Undefined, Undefined, Undefined) >>) }

ProjectInit ==
    /\ projectList = DEFAULT_PROJECTS \o << <<"P">>, <<"Q">> >>
    /\ \E n \in 1..MaxProjectTasks :
          \E lists \in [1..n -> {INBOX, <<"P">>}] :
             projTasks = [k \in 1..n |-> ProjectTask(createId(k), lists[k], FALSE)]
    /\ projFilter = <<"P">>
    /\ projUndo = <<>>
    /\ projSteps = 0
    /\ projOp = [name |-> "init", preProjects |-> projectList, preTasks |-> projTasks,
                 undo |-> <<>>, file |-> <<>>]
    /\ importError = ""

ProjectIdle ==
    /\ projectList = DEFAULT_PROJECTS
    /\ projTasks = <<>>
    /\ projFilter = <<"i", "n", "b", "o", "x">>
    /\ projUndo = <<>>
    /\ projSteps = 0
    /\ projOp = [name |-> "init", preProjects |-> DEFAULT_PROJECTS, preTasks |-> <<>>,
                 undo |-> <<>>, file |-> <<>>]
    /\ importError = ""


ProjectStep == projSteps < MaxProjectSteps /\ projSteps' = projSteps + 1

addProjectKeepsToast(name) ==
    /\ ProjectStep
    /\ projOp' = ProjectSnapshot("addProject")
    /\ IF ~\E k \in 1..Len(projectList) : toLowerCase(projectList[k]) = toLowerCase(name)
       THEN projectList' = Append(projectList, name)
       ELSE UNCHANGED projectList
    /\ UNCHANGED <<projTasks, projFilter, projUndo, importError>>

\* addProject(name): both branches show a toast without an undo
addProject(name) ==
    /\ ProjectStep
    /\ projOp' = ProjectSnapshot("addProject")
    /\ IF ~\E k \in 1..Len(projectList) : toLowerCase(projectList[k]) = toLowerCase(name)
       THEN projectList' = Append(projectList, name)
       ELSE UNCHANGED projectList
    /\ projUndo' = <<>>
    /\ UNCHANGED <<projTasks, projFilter, importError>>

\* deleteProject(projectToDelete)
deleteProject(projectToDelete) ==
    LET NotDeleted(project) == project # projectToDelete
        tasksToMoveIds == {projTasks[k].id :
                             k \in {j \in 1..Len(projTasks) : projTasks[j].list = projectToDelete}}
    IN /\ ProjectStep
       /\ projOp' = ProjectSnapshot("deleteProject")
       /\ UNCHANGED importError
       /\ IF Includes(DEFAULT_PROJECTS, projectToDelete)
          THEN /\ projUndo' = <<>>
               /\ UNCHANGED <<projectList, projTasks, projFilter>>
          ELSE /\ projectList' = SelectSeq(projectList, NotDeleted)
               /\ projTasks' = [k \in 1..Len(projTasks) |->
                                   IF projTasks[k].list = projectToDelete
                                   THEN [projTasks[k] EXCEPT !.list = INBOX]
                                   ELSE projTasks[k]]
               /\ projUndo' = <<[prevProjects |-> projectList,
                                 projectToDelete |-> projectToDelete,
                                 tasksToMoveIds |-> tasksToMoveIds]>>
               /\ projFilter' = IF projFilter = projectToDelete
                                THEN <<"i", "n", "b", "o", "x">> ELSE projFilter

\* the Undo button of the toast of deleteProject
undoProject ==
    /\ projUndo # <<>>
    /\ ProjectStep
    /\ projOp' = ProjectSnapshot("undo")
    /\ projectList' = projUndo[1].prevProjects
    /\ projTasks' = [k \in 1..Len(projTasks) |->
                        IF projTasks[k].id \in projUndo[1].tasksToMoveIds
                        THEN [projTasks[k] EXCEPT !.list = projUndo[1].projectToDelete]
                        ELSE projTasks[k]]
    /\ UNCHANGED <<projFilter, projUndo, importError>>

\* the timeout of showToast
projectToastTimeout ==
    /\ projUndo # <<>>
    /\ projUndo' = <<>>
    /\ UNCHANGED <<projectList, projTasks, projFilter, projSteps, projOp, importError>>

\* the lists a task is moved to in the detail panel
MoveTargets == {INBOX, <<"Q">>}

\* StagingPanel, the list select: onUpdate({...task, list: value})
moveTask(k, list) ==
    /\ ProjectStep
    /\ list = INBOX \/ Includes(projectList, list)
    /\ projOp' = ProjectSnapshot("moveTask")
    /\ projTasks' = [j \in 1..Len(projTasks) |->
                        IF projTasks[j].id = projTasks[k].id
                        THEN [projTasks[k] EXCEPT !.list = list] ELSE projTasks[j]]
    /\ UNCHANGED <<projectList, projFilter, projUndo, importError>>

\* performToggle(id), as far as the project handlers are concerned
toggleProjectTask(k) ==
    /\ ProjectStep
    /\ projOp' = ProjectSnapshot("toggle")
    /\ projTasks' = [j \in 1..Len(projTasks) |->
                        IF projTasks[j].id = projTasks[k].id
                        THEN [projTasks[j] EXCEPT !.completed = ~projTasks[j].completed,
                                                  !.completedAt = IF ~projTasks[j].completed
                                                                  THEN <<1>> ELSE <<>>]
                        ELSE projTasks[j]]
    /\ UNCHANGED <<projectList, projFilter, projUndo, importError>>

\* Sidebar: a view is selected
selectProjectFilter(view) ==
    /\ ProjectStep
    /\ projOp' = ProjectSnapshot("select")
    /\ view # projFilter
    /\ projFilter' = view
    /\ UNCHANGED <<projectList, projTasks, projUndo, importError>>

\* Array.from(new Set(seq)): the first occurrence of each member, in order
Distinct(seq) ==
    LET First(k) == \A j \in 1..(k - 1) : seq[j] # seq[k]
        F[k \in 0..Len(seq)] ==
            IF k = 0 THEN <<>>
            ELSE IF First(k) THEN Append(F[k - 1], seq[k]) ELSE F[k - 1]
    IN F[Len(seq)]

\* App.handleImportData(importedTasks)
handleImportData(importedTasks) ==
    LET NotInbox(project) == project # INBOX
        usedProjects == Distinct([k \in 1..Len(importedTasks) |-> importedTasks[k].list])
    IN /\ projTasks' = importedTasks
       /\ projectList' = SelectSeq(Distinct(DEFAULT_PROJECTS \o usedProjects), NotInbox)
       /\ projUndo' = <<>>

readerOnloadUnchecked(file) ==
    /\ ProjectStep
    /\ projOp' = [ProjectSnapshot("import") EXCEPT !.file = <<file>>]
    /\ IF file = SyntaxError
       THEN /\ importError' = "Unexpected token"
            /\ UNCHANGED <<projectList, projTasks, projUndo>>
       ELSE IF ~IsArray(file)
       THEN /\ importError' = "Invalid format: Expected an array of tasks"
            /\ UNCHANGED <<projectList, projTasks, projUndo>>
       ELSE /\ handleImportData(sanitizeTaskList(file, 1, 3).tasks)
            /\ importError' = ""
    /\ UNCHANGED projFilter

\* SettingsModal.handleImport, the reader.onload callback: JSON.parse,
\* sanitizeTaskList and onImportData inside the try, setImportError in the
\* catch
readerOnload(file) ==
    /\ ProjectStep
    /\ projOp' = [ProjectSnapshot("import") EXCEPT !.file = <<file>>]
    /\ IF file = SyntaxError
       THEN /\ importError' = "Unexpected token"
            /\ UNCHANGED <<projectList, projTasks, projUndo>>
       ELSE IF ~IsArray(file)
       THEN /\ importError' = "Invalid format: Expected an array of tasks"
            /\ UNCHANGED <<projectList, projTasks, projUndo>>
       ELSE IF Len(sanitizeTaskList(file, 1, 3).tasks) = 0
       THEN /\ importError' = "No valid tasks found in this file"
            /\ UNCHANGED <<projectList, projTasks, projUndo>>
       ELSE /\ handleImportData(sanitizeTaskList(file, 1, 3).tasks)
            /\ importError' = ""
    /\ UNCHANGED projFilter

(***************************************************************************)
(* Desktop updater: hooks/useDesktopUpdater and electron/main.cjs          *)
(* The status text and the toasts are display only and are left out; the   *)
(* main process is the macOS build (isDev false, isMac true), and          *)
(* checkForUpdates() is taken to resolve with updateInfo.                  *)
(***************************************************************************)

\* How many manual checks are requested, and the versions a release
\* server may announce.
MaxManualChecks == 2
Versions == {1, 2}

UpdaterOps == {"check", "download", "install"}

Status(type, version) == [kind |-> "status", type |-> type, version |-> version, to |-> ""]
Reply(to, outcome) == [kind |-> "reply", type |-> outcome, version |-> 0, to |-> to]

UpdaterInit ==
    /\ isCheckingDesktopUpdate = FALSE
    /\ desktopUpdaterSignalRef = FALSE
    /\ promptedAvailableVersionRef = <<>>
    /\ promptedDownloadedVersionRef = <<>>
    /\ confirmDialog = <<>>
    /\ pendingTimers = {"initial", "retry"}
    /\ manualChecks = 0
    /\ updaterCheckTask = <<>>
    /\ updaterDownloadTask = <<>>
    /\ externalInstallTask = <<>>
    /\ latestAvailableVersion = <<>>
    /\ latestDownloadedVersion = <<>>
    /\ running = [op \in UpdaterOps |-> 0]
    /\ ipcQueue = <<>>
    /\ promptLog = <<>>

\* the updater with no desktop bridge: enabled is false, nothing ever runs
UpdaterIdle ==
    /\ isCheckingDesktopUpdate = FALSE
    /\ desktopUpdaterSignalRef = FALSE
    /\ promptedAvailableVersionRef = <<>>
    /\ promptedDownloadedVersionRef = <<>>
    /\ confirmDialog = <<>>
    /\ pendingTimers = {}
    /\ manualChecks = 0
    /\ updaterCheckTask = <<>>
    /\ updaterDownloadTask = <<>>
    /\ externalInstallTask = <<>>
    /\ latestAvailableVersion = <<>>
    /\ latestDownloadedVersion = <<>>
    /\ running = [op \in UpdaterOps |-> 0]
    /\ ipcQueue = <<>>
    /\ promptLog = <<>>

rendererRefs == <<desktopUpdaterSignalRef, promptedAvailableVersionRef,
                  promptedDownloadedVersionRef>>
mainTasks == <<updaterCheckTask, updaterDownloadTask, externalInstallTask,
               latestAvailableVersion, latestDownloadedVersion, running>>

\* ---- main process ----

updaterCheckUnguarded(to) ==
    /\ updaterCheckTask' = <<to>>
    /\ running' = [running EXCEPT !["check"] = @ + 1]
    /\ ipcQueue' = Append(ipcQueue, Status("checking", 0))
    /\ UNCHANGED <<updaterDownloadTask, externalInstallTask, latestAvailableVersion,
                   latestDownloadedVersion>>

\* ipcMain.handle('updater:check') up to the await: a pending check answers
\* 'in-progress', else autoUpdater.checkForUpdates() starts and announces
\* 'checking'
updaterCheck(to) ==
    /\ IF updaterCheckTask # <<>>
       THEN /\ ipcQueue' = Append(ipcQueue, Reply(to, "in-progress"))
            /\ UNCHANGED <<updaterCheckTask, running>>
       ELSE /\ updaterCheckTask' = <<to>>
            /\ running' = [running EXCEPT !["check"] = @ + 1]
            /\ ipcQueue' = Append(ipcQueue, Status("checking", 0))
    /\ UNCHANGED <<updaterDownloadTask, externalInstallTask, latestAvailableVersion,
                   latestDownloadedVersion>>

\* the pending check settles: the autoUpdater event, .finally, and the rest
\* of the handler (a second 'available' for a newer directVersion)
checkForUpdatesSettles(outcome, version) ==
    /\ updaterCheckTask # <<>>
    /\ updaterCheckTask' = <<>>
    /\ running' = [running EXCEPT !["check"] = @ - 1]
    /\ IF outcome = "available"
       THEN /\ latestAvailableVersion' = <<version>>
            /\ ipcQueue' = ipcQueue \o << Status("available", version),
                                          Status("available", version),
                                          Reply(updaterCheckTask[1], "ok") >>
       ELSE /\ UNCHANGED latestAvailableVersion
            /\ ipcQueue' = ipcQueue \o
                  (IF outcome = "not-available"
                   THEN << Status("not-available", 0), Reply(updaterCheckTask[1], "ok") >>
                   ELSE << Status("error", 0), Reply(updaterCheckTask[1], "failed") >>)
    /\ UNCHANGED <<updaterDownloadTask, externalInstallTask, latestDownloadedVersion>>

\* ipcMain.handle('updater:download') up to the await
updaterDownload ==
    /\ IF updaterDownloadTask # <<>>
       THEN /\ ipcQueue' = Append(ipcQueue, Reply("download", "in-progress"))
            /\ UNCHANGED <<updaterDownloadTask, running>>
       ELSE /\ updaterDownloadTask' = <<"download">>
            /\ running' = [running EXCEPT !["download"] = @ + 1]
            /\ UNCHANGED ipcQueue
    /\ UNCHANGED <<updaterCheckTask, externalInstallTask, latestAvailableVersion,
                   latestDownloadedVersion>>

\* the pending download settles: 'downloaded' or 'error', .finally, the reply
downloadUpdateSettles(succeeds) ==
    /\ updaterDownloadTask # <<>>
    /\ updaterDownloadTask' = <<>>
    /\ running' = [running EXCEPT !["download"] = @ - 1]
    /\ IF succeeds /\ latestAvailableVersion # <<>>
       THEN /\ latestDownloadedVersion' = latestAvailableVersion
            /\ ipcQueue' = ipcQueue \o << Status("downloaded", latestAvailableVersion[1]),
                                          Reply("download", "ok") >>
       ELSE /\ UNCHANGED latestDownloadedVersion
            /\ ipcQueue' = ipcQueue \o << Status("error", 0), Reply("download", "failed") >>
    /\ UNCHANGED <<updaterCheckTask, externalInstallTask, latestAvailableVersion>>

\* startExternalMacUpdateInstall() up to the await
startExternalMacUpdateInstall ==
    LET targetVersion == IF latestDownloadedVersion # <<>> THEN latestDownloadedVersion
                         ELSE latestAvailableVersion
    IN /\ IF externalInstallTask # <<>>
          THEN /\ ipcQueue' = Append(ipcQueue, Reply("install", "in-progress"))
               /\ UNCHANGED <<externalInstallTask, running>>
          ELSE IF targetVersion = <<>>
          THEN /\ ipcQueue' = Append(ipcQueue, Reply("install", "failed"))
               /\ UNCHANGED <<externalInstallTask, running>>
          ELSE /\ externalInstallTask' = <<"install">>
               /\ running' = [running EXCEPT !["install"] = @ + 1]
               /\ UNCHANGED ipcQueue
       /\ UNCHANGED <<updaterCheckTask, updaterDownloadTask, latestAvailableVersion,
                      latestDownloadedVersion>>

\* the install task settles: .finally, then the reply; app.quit() follows a
\* success, and what the renderer may still do until then is kept
externalInstallSettles(outcome) ==
    /\ externalInstallTask # <<>>
    /\ externalInstallTask' = <<>>
    /\ running' = [running EXCEPT !["install"] = @ - 1]
    /\ ipcQueue' = Append(ipcQueue, Reply("install", outcome))
    /\ UNCHANGED <<updaterCheckTask, updaterDownloadTask, latestAvailableVersion,
                   latestDownloadedVersion>>

\* ---- renderer ----
\* manualDesktopCheckRef and desktopUpdateUserFlowRef are read only to decide
\* whether a toast is shown, and are left out with the toasts.

\* finishDesktopUpdateFlow()
finishDesktopUpdateFlow == isCheckingDesktopUpdate' = FALSE

\* an invoke of the bridge: it reaches main, or the call itself fails
CallMain(arrives, to, handler) ==
    IF arrives THEN handler
    ELSE /\ ipcQueue' = Append(ipcQueue, Reply(to, "threw"))
         /\ UNCHANGED mainTasks

\* requestDesktopUpdateCheck(), from the button that is disabled while
\* isCheckingDesktopUpdate
requestDesktopUpdateCheck(arrives) ==
    /\ ~isCheckingDesktopUpdate
    /\ manualChecks < MaxManualChecks
    /\ manualChecks' = manualChecks + 1
    /\ isCheckingDesktopUpdate' = TRUE
    /\ CallMain(arrives, "manual", updaterCheck("manual"))
    /\ UNCHANGED <<rendererRefs, confirmDialog, pendingTimers, promptLog>>

\* initialTimer, after 1.2 s
initialTimer(arrives) ==
    /\ "initial" \in pendingTimers
    /\ pendingTimers' = pendingTimers \ {"initial"}
    /\ isCheckingDesktopUpdate' = TRUE
    /\ CallMain(arrives, "background", updaterCheck("background"))
    /\ UNCHANGED <<rendererRefs, confirmDialog, manualChecks, promptLog>>

\* retryTimer, after 10 s
retryTimer(arrives) ==
    /\ pendingTimers = {"retry"}
    /\ pendingTimers' = {}
    /\ IF ~desktopUpdaterSignalRef
       THEN /\ isCheckingDesktopUpdate' = TRUE
            /\ CallMain(arrives, "background", updaterCheck("background"))
       ELSE /\ arrives
            /\ UNCHANGED <<isCheckingDesktopUpdate, mainTasks, ipcQueue>>
    /\ UNCHANGED <<rendererRefs, confirmDialog, manualChecks, promptLog>>

onAvailableAlwaysPrompts(nextVersion) ==
    /\ promptedAvailableVersionRef' = <<nextVersion>>
    /\ confirmDialog' = <<[kind |-> "download", version |-> nextVersion]>>
    /\ promptLog' = Append(promptLog, nextVersion)
    /\ UNCHANGED <<isCheckingDesktopUpdate, promptedDownloadedVersionRef>>

\* onStatus, payload.type === 'available'
onAvailable(nextVersion) ==
    /\ IF promptedAvailableVersionRef = <<nextVersion>>
       THEN UNCHANGED <<promptedAvailableVersionRef, confirmDialog, promptLog>>
       ELSE /\ promptedAvailableVersionRef' = <<nextVersion>>
            /\ confirmDialog' = <<[kind |-> "download", version |-> nextVersion]>>
            /\ promptLog' = Append(promptLog, nextVersion)
    /\ UNCHANGED <<isCheckingDesktopUpdate, promptedDownloadedVersionRef>>

\* the listener given to updater.onStatus, on the oldest message in flight
onStatus ==
    /\ ipcQueue # <<>>
    /\ ipcQueue[1].kind = "status"
    /\ ipcQueue' = Tail(ipcQueue)
    /\ desktopUpdaterSignalRef' = TRUE
    /\ LET payload == ipcQueue[1]
       IN CASE payload.type = "checking" ->
                 /\ isCheckingDesktopUpdate' = TRUE
                 /\ UNCHANGED <<promptedAvailableVersionRef, promptedDownloadedVersionRef,
                                confirmDialog, promptLog>>
            [] payload.type = "available" -> onAvailable(payload.version)
            [] payload.type = "downloaded" ->
                 /\ IF promptedDownloadedVersionRef = <<payload.version>>
                    THEN UNCHANGED <<promptedDownloadedVersionRef, confirmDialog>>
                    ELSE /\ promptedDownloadedVersionRef' = <<payload.version>>
                         /\ confirmDialog' = <<[kind |-> "install",
                                                version |-> payload.version]>>
                 /\ UNCHANGED <<isCheckingDesktopUpdate, promptedAvailableVersionRef,
                                promptLog>>
            [] payload.type = "not-available" ->
                 /\ promptedAvailableVersionRef' = <<>>
                 /\ promptedDownloadedVersionRef' = <<>>
                 /\ isCheckingDesktopUpdate' = FALSE
                 /\ promptLog' = <<>>
                 /\ UNCHANGED confirmDialog
            [] payload.type = "error" ->
                 /\ finishDesktopUpdateFlow
                 /\ UNCHANGED <<promptedAvailableVersionRef, promptedDownloadedVersionRef,
                                confirmDialog, promptLog>>
    /\ UNCHANGED <<pendingTimers, manualChecks, mainTasks>>

\* the awaited bridge call returns or throws: the rest of
\* requestDesktopUpdateCheck, runCheck and the onConfirm handlers
ipcReplyArrives ==
    /\ ipcQueue # <<>>
    /\ ipcQueue[1].kind = "reply"
    /\ ipcQueue' = Tail(ipcQueue)
    /\ LET result == ipcQueue[1]
           ok == result.type \in {"ok", "in-progress"}
       IN CASE result.to \in {"manual", "background", "download"} ->
                 /\ isCheckingDesktopUpdate' = IF ok THEN isCheckingDesktopUpdate ELSE FALSE
                 /\ UNCHANGED confirmDialog
            [] result.to = "install" ->
                 /\ finishDesktopUpdateFlow
                 /\ confirmDialog' = IF result.type = "not-in-applications"
                                     THEN <<[kind |-> "move", version |-> 0]>>
                                     ELSE confirmDialog
    /\ UNCHANGED <<rendererRefs, pendingTimers, manualChecks, mainTasks, promptLog>>

\* App.runConfirmAction(kind) on the open prompt
runConfirmAction(kind, arrives) ==
    /\ confirmDialog # <<>>
    /\ confirmDialog' = <<>>
    /\ LET dialog == confirmDialog[1]
       IN CASE dialog.kind = "download" /\ kind = "confirm" ->
                 /\ CallMain(arrives, "download", updaterDownload)
                 /\ UNCHANGED isCheckingDesktopUpdate
            [] dialog.kind = "install" /\ kind = "confirm" ->
                 /\ CallMain(arrives, "install", startExternalMacUpdateInstall)
                 /\ UNCHANGED isCheckingDesktopUpdate
            [] dialog.kind = "move" ->
                 /\ arrives
                 /\ UNCHANGED <<isCheckingDesktopUpdate, mainTasks, ipcQueue>>
            [] dialog.kind # "move" /\ kind = "cancel" ->
                 /\ arrives
                 /\ finishDesktopUpdateFlow
                 /\ UNCHANGED <<mainTasks, ipcQueue>>
    /\ UNCHANGED <<rendererRefs, pendingTimers, manualChecks, promptLog>>

(***************************************************************************)
(* Persistence of the task list: the debounced effect of App and           *)
(* utils/storage                                                           *)
(***************************************************************************)

\* How many times the task list changes.
MaxPersistChanges == 3

\* The task lists the handlers of App may set.
PersistLists ==
    { <<>>,
      << ProjectTask(createId(1), INBOX, FALSE) >>,
      << ProjectTask(createId(1), INBOX, TRUE) >>,
      << ProjectTask(createId(2), INBOX, FALSE), ProjectTask(createId(1), INBOX, FALSE) >> }

\* App mounts with the stored list, or with a list of its own when the
\* key is absent, and the effect runs for the first time
PersistInit ==
    /\ memTasks = << ProjectTask(createId(1), INBOX, FALSE) >>
    /\ storedTasks \in { <<>>, <<JsonOfTasks(memTasks)>> }
    /\ persistTimers = {memTasks}
    /\ persistChanges = 0
    /\ writeLog = <<>>

PersistIdle ==
    /\ memTasks = <<>>
    /\ storedTasks = <<>>
    /\ persistTimers = {}
    /\ persistChanges = 0
    /\ writeLog = <<>>

ExtraIdle == ProjectIdle /\ UpdaterIdle /\ PersistIdle

setTasksNoCleanup(next) ==
    /\ persistChanges < MaxPersistChanges
    /\ persistChanges' = persistChanges + 1
    /\ memTasks' = next
    /\ persistTimers' = persistTimers \cup {next}
    /\ UNCHANGED <<storedTasks, writeLog>>

\* a handler sets a new task list: the cleanup of the effect clears the
\* pending timeout, the effect sets one that captures the new list
setTasks(next) ==
    /\ persistChanges < MaxPersistChanges
    /\ persistChanges' = persistChanges + 1
    /\ memTasks' = next
    /\ persistTimers' = {next}
    /\ UNCHANGED <<storedTasks, writeLog>>

\* clearAllLocalData(): removeStoredKeys([...]), then setTasks([])
clearAllLocalData ==
    /\ persistChanges < MaxPersistChanges
    /\ persistChanges' = persistChanges + 1
    /\ storedTasks' = <<>>
    /\ memTasks' = <<>>
    /\ persistTimers' = { <<>> }
    /\ UNCHANGED writeLog

\* writeStoredJson(key, value): localStorage.setItem stores the text, or
\* throws (quota, storage disabled) and the error is logged
writeStoredJson(value, stored) ==
    /\ storedTasks' = IF stored THEN <<JsonOfTasks(value)>> ELSE storedTasks
    /\ writeLog' = Append(writeLog, IF stored THEN "ok" ELSE "failed")

\* the timeout of the effect fires, TASKS_PERSIST_DEBOUNCE_MS after it was set
persistTimerFires(captured, stored) ==
    /\ captured \in persistTimers
    /\ persistTimers' = persistTimers \ {captured}
    /\ writeStoredJson(captured, stored)
    /\ UNCHANGED <<memTasks, persistChanges>>

(***************************************************************************)
(* Contribution heatmap: components/Heatmap                                *)
(***************************************************************************)

\* The number of days, from the second day of the Calendar on, that can
\* carry completions.
MaxStreakSpan == 6

DayMs == 1000 * 60 * 60 * 24

\* new Date(timestamp): the Calendar day a timestamp falls on, and noon of a day
DateOfTimestamp(ts) == (ts \div DayMs) + 1
NoonOf(day) == (day - 1) * DayMs + (DayMs \div 2)

\* new Date(dateStr): the day whose ISO string is dateStr
DateOfIso(dateStr) == CHOOSE day \in 1..Len(Calendar) : toLocalIsoDate(day) = dateStr

\* step 1 of the memo: the day -> count map of the completed, stamped tasks
BuildCompletionMap(taskSeq) ==
    LET F[k \in 0..Len(taskSeq)] ==
            IF k = 0 THEN <<>>
            ELSE IF taskSeq[k].completed /\ taskSeq[k].completedAt # <<>>
                    /\ taskSeq[k].completedAt[1] # 0
                 THEN LET dateKey == toLocalIsoDate(DateOfTimestamp(taskSeq[k].completedAt[1]))
                          old == F[k - 1]
                      IN [key \in DOMAIN old \cup {dateKey} |->
                            IF key = dateKey
                            THEN (IF key \in DOMAIN old THEN old[key] + 1 ELSE 1)
                            ELSE old[key]]
                 ELSE F[k - 1]
    IN F[Len(taskSeq)]

\* map[dateStr] is truthy
HasEntry(map, dateStr) == dateStr \in DOMAIN map /\ map[dateStr] # 0

\* Object.keys(map).sort()
SortedKeys(map) ==
    LET keys == DOMAIN map
        Rank(key) == Cardinality({other \in keys : IsoCompare(other, key) < 0}) + 1
    IN [k \in 1..Cardinality(keys) |-> CHOOSE key \in keys : Rank(key) = k]

getDiffDays(d1Str, d2Str) == DateOfIso(d2Str) - DateOfIso(d1Str)

MaxStreakNoReset(map) ==
    LET activeDates == SortedKeys(map)
        F[i \in 1..Len(activeDates)] ==
            IF i = 1 THEN [tempCurrent |-> 1, max |-> 1]
            ELSE LET temp == IF getDiffDays(activeDates[i - 1], activeDates[i]) = 1
                             THEN F[i - 1].tempCurrent + 1 ELSE F[i - 1].tempCurrent
                 IN [tempCurrent |-> temp, max |-> Max(F[i - 1].max, temp)]
    IN IF Len(activeDates) = 0 THEN 0 ELSE F[Len(activeDates)].max

\* the loop over activeDates: the longest run of consecutive days
MaxStreakOf(map) ==
    LET activeDates == SortedKeys(map)
        F[i \in 1..Len(activeDates)] ==   \* [tempCurrent, max] once index i is reached
            IF i = 1 THEN [tempCurrent |-> 1, max |-> 1]
            ELSE LET temp == IF getDiffDays(activeDates[i - 1], activeDates[i]) = 1
                             THEN F[i - 1].tempCurrent + 1 ELSE 1
                 IN [tempCurrent |-> temp, max |-> Max(F[i - 1].max, temp)]
    IN IF Len(activeDates) = 0 THEN 0 ELSE F[Len(activeDates)].max

\* the while loops: the populated days counted backwards from day on
RECURSIVE CountBack(_, _)
CountBack(map, day) ==
    IF HasEntry(map, toLocalIsoDate(day)) THEN 1 + CountBack(map, day - 1) ELSE 0

CurrentStreakFromTodayOnly(map, t) ==
    IF HasEntry(map, toLocalIsoDate(t)) THEN 1 + CountBack(map, t - 1) ELSE 0

\* the current streak, today being day t
CurrentStreakOf(map, t) ==
    IF DOMAIN map = {} THEN 0
    ELSE IF HasEntry(map, toLocalIsoDate(t)) THEN 1 + CountBack(map, t - 1)
    ELSE IF HasEntry(map, toLocalIsoDate(t - 1)) THEN CountBack(map, t - 1)
    ELSE 0

\* the useMemo over [tasks]; today is the day it was computed on
HeatmapStats(taskSeq, t) ==
    LET map == BuildCompletionMap(taskSeq)
    IN [completionMap |-> map, maxStreak |-> MaxStreakOf(map),
        currentStreak |-> CurrentStreakOf(map, t), today |-> t]

\* one completed task for each of the days, newest first, under an open task
TasksCompletedOn(days) ==
    LET F[k \in 0..Len(Calendar)] ==
            IF k = 0 THEN <<>>
            ELSE IF k \in days
                 THEN <<[completed |-> TRUE, completedAt |-> <<NoonOf(k)>>]>> \o F[k - 1]
                 ELSE F[k - 1]
    IN <<[completed |-> FALSE, completedAt |-> <<>>]>> \o F[Len(Calendar)]

HeatInit ==
    /\ \E days \in SUBSET (2..(MaxStreakSpan + 1)) :
          /\ heatTasks = TasksCompletedOn(days)
          /\ heatToday \in {t \in 2..(MaxStreakSpan + 2) : \A d \in days : d <= t}
    /\ heatStats = HeatmapStats(heatTasks, heatToday)

HeatIdle ==
    /\ heatTasks = <<>>
    /\ heatToday = 2
    /\ heatStats = [completionMap |-> <<>>, maxStreak |-> 0, currentStreak |-> 0, today |-> 2]

\* the first task is completed or reopened today, and Heatmap renders again
heatToggle ==
    /\ heatTasks' = [heatTasks EXCEPT ![1] =
                        [completed |-> ~heatTasks[1].completed,
                         completedAt |-> IF ~heatTasks[1].completed
                                         THEN <<NoonOf(heatToday)>> ELSE <<>>]]
    /\ heatStats' = HeatmapStats(heatTasks', heatToday)
    /\ UNCHANGED heatToday

\* midnight passes: the memo depends on tasks only and is not recomputed
heatMidnight ==
    /\ heatToday < MaxStreakSpan + 3
    /\ heatToday' = heatToday + 1
    /\ UNCHANGED <<heatTasks, heatStats>>

(***************************************************************************)
(* Focus timer                                                             *)
(***************************************************************************)

\* The number of clock advances explored.
MaxClockSteps == 2

\* The amounts (ms) by which the clock advances between two handlers: half a
\* second, one tick period, and the stretches that bring a 300 s or 1500 s
\* countdown to its end or its last second.
ClockAdvances == {500, 1000, 300000, 1499000}

\* The number of effective adjust/preset requests explored.
MaxTimerEdits == 1

FOCUS_DEFAULT_SECONDS == 25 * 60
BREAK_DEFAULT_SECONDS == 5 * 60

getDefaultFocusSeconds(mode) ==
    IF mode = "focus" THEN FOCUS_DEFAULT_SECONDS ELSE BREAK_DEFAULT_SECONDS


\* Math.ceil(x / d) for an integer x and d > 0.
MathCeilDiv(x, d) == -((-x) \div d)

\* The minute adjustments and presets the FocusMode buttons offer.
AdjustDeltas == {-5, 5}
Presets == {15, 25, 45, 60}
Modes == {"focus", "break"}

\* What every handler leaves behind for the history variable.
Snapshot(name) ==
    [name |-> name, preActive |-> isFocusActive, preEnd |-> focusEndTime,
     preMode |-> focusModeType, preLeft |-> focusTimeLeft]

\* The effect that copies isFocusActive into the ref runs with every commit.
SyncRef == isFocusActiveRef' = isFocusActive'

TimerInit ==
    /\ now = 0
    /\ focusEndTime = <<>>
    /\ focusTimeLeft = FOCUS_DEFAULT_SECONDS
    /\ isFocusActive = FALSE
    /\ focusModeType = "focus"
    /\ isFocusActiveRef = FALSE
    /\ clockSteps = 0
    /\ timerEdits = 0
    /\ timerOp = [name |-> "init", preActive |-> FALSE, preEnd |-> <<>>,
                  preMode |-> "focus", preLeft |-> FOCUS_DEFAULT_SECONDS]
    /\ runStart = <<>>

AdvanceClock(d) ==
    /\ clockSteps < MaxClockSteps
    /\ now' = now + d
    /\ clockSteps' = clockSteps + 1
    /\ timerOp' = Snapshot("clock")
    /\ UNCHANGED <<focusEndTime, focusTimeLeft, isFocusActive, focusModeType,
                   isFocusActiveRef, timerEdits, runStart>>

\* switchTimerMode(nextMode, autoStart)
switchTimerMode(nextMode, autoStart) ==
    /\ focusModeType' = nextMode
    /\ focusTimeLeft' = getDefaultFocusSeconds(nextMode)
    /\ IF autoStart
       THEN /\ focusEndTime' = <<now + getDefaultFocusSeconds(nextMode) * 1000>>
            /\ isFocusActive' = TRUE
       ELSE /\ focusEndTime' = <<>>
            /\ isFocusActive' = FALSE

\* Math.max(1, Math.floor(focusTimeLeft)): the seconds are integers here.
StartSeconds(left) == Max(1, left)

startTimerAgain ==
    /\ timerOp' = Snapshot("start")
    /\ focusTimeLeft' = StartSeconds(focusTimeLeft)
    /\ focusEndTime' = <<now + StartSeconds(focusTimeLeft) * 1000>>
    /\ isFocusActive' = TRUE
    /\ runStart' = <<[at |-> now, left |-> focusTimeLeft]>>
    /\ SyncRef
    /\ UNCHANGED <<now, clockSteps, timerEdits, focusModeType>>

\* startTimer(): the ref is current whenever a click handler runs, since
\* the effect that writes it is flushed with the commit of a click
startTimer ==
    /\ timerOp' = Snapshot("start")
    /\ IF isFocusActiveRef
       THEN UNCHANGED <<focusEndTime, focusTimeLeft, isFocusActive,
                        isFocusActiveRef, runStart>>
       ELSE /\ focusTimeLeft' = StartSeconds(focusTimeLeft)
            /\ focusEndTime' = <<now + StartSeconds(focusTimeLeft) * 1000>>
            /\ isFocusActive' = TRUE
            /\ runStart' = <<[at |-> now, left |-> focusTimeLeft]>>
            /\ SyncRef
    /\ UNCHANGED <<now, clockSteps, timerEdits, focusModeType>>

pauseTimerKeepsEnd ==
    /\ timerOp' = Snapshot("pause")
    /\ isFocusActive' = FALSE
    /\ SyncRef
    /\ UNCHANGED <<now, clockSteps, timerEdits, focusModeType, focusTimeLeft, runStart,
                   focusEndTime>>

pauseTimer ==
    /\ timerOp' = Snapshot("pause")
    /\ isFocusActive' = FALSE
    /\ focusEndTime' = <<>>
    /\ SyncRef
    /\ UNCHANGED <<now, clockSteps, timerEdits, focusModeType, focusTimeLeft, runStart>>

resetTimerKeepsLeft ==
    /\ timerOp' = Snapshot("reset")
    /\ isFocusActive' = FALSE
    /\ focusEndTime' = <<>>
    /\ runStart' = <<>>
    /\ SyncRef
    /\ UNCHANGED <<now, clockSteps, timerEdits, focusModeType, focusTimeLeft>>

\* resetTimer(): pauseTimer() and the default of the current mode
resetTimer ==
    /\ timerOp' = Snapshot("reset")
    /\ isFocusActive' = FALSE
    /\ focusEndTime' = <<>>
    /\ focusTimeLeft' = getDefaultFocusSeconds(focusModeType)
    /\ runStart' = <<>>
    /\ SyncRef
    /\ UNCHANGED <<now, clockSteps, timerEdits, focusModeType>>

\* handleSetTimeLeft(val): val already applied to the previous value.
handleSetTimeLeft(nextValue) ==
    /\ focusTimeLeft' = Max(1, nextValue)
    /\ IF isFocusActiveRef
       THEN focusEndTime' = <<now + Max(1, nextValue) * 1000>>
       ELSE UNCHANGED focusEndTime

adjustTimeWhileRunning(minutes) ==
    /\ isFocusActive \/ timerEdits < MaxTimerEdits
    /\ timerOp' = Snapshot("adjust")
    /\ handleSetTimeLeft(Max(60, Min(180 * 60, focusTimeLeft + minutes * 60)))
    /\ runStart' = IF isFocusActive THEN runStart ELSE <<>>
    /\ timerEdits' = IF isFocusActive THEN timerEdits ELSE timerEdits + 1
    /\ UNCHANGED <<now, clockSteps, focusModeType, isFocusActive, isFocusActiveRef>>

\* FocusMode.adjustTime(minutes)
adjustTime(minutes) ==
    /\ isFocusActive \/ timerEdits < MaxTimerEdits
    /\ timerOp' = Snapshot("adjust")
    /\ IF isFocusActive
       THEN UNCHANGED <<focusTimeLeft, focusEndTime>>
       ELSE handleSetTimeLeft(Max(60, Min(180 * 60, focusTimeLeft + minutes * 60)))
    /\ runStart' = IF isFocusActive THEN runStart ELSE <<>>
    /\ timerEdits' = IF isFocusActive THEN timerEdits ELSE timerEdits + 1
    /\ UNCHANGED <<now, clockSteps, focusModeType, isFocusActive, isFocusActiveRef>>

\* FocusMode.setPreset(minutes)
setPreset(minutes) ==
    /\ isFocusActive \/ timerEdits < MaxTimerEdits
    /\ timerOp' = Snapshot("preset")
    /\ IF isFocusActive
       THEN UNCHANGED <<focusTimeLeft, focusEndTime>>
       ELSE handleSetTimeLeft(minutes * 60)
    /\ runStart' = IF isFocusActive THEN runStart ELSE <<>>
    /\ timerEdits' = IF isFocusActive THEN timerEdits ELSE timerEdits + 1
    /\ UNCHANGED <<now, clockSteps, focusModeType, isFocusActive, isFocusActiveRef>>

\* FocusMode.switchMode(newMode) -> handleFocusModeChange -> switchTimerMode
switchMode(newMode) ==
    /\ timerOp' = Snapshot("switch")
    /\ IF newMode # focusModeType
       THEN /\ switchTimerMode(newMode, FALSE)
            /\ runStart' = <<>>
            /\ SyncRef
       ELSE UNCHANGED <<focusModeType, focusTimeLeft, focusEndTime, isFocusActive,
                        isFocusActiveRef, runStart>>
    /\ UNCHANGED <<now, clockSteps, timerEdits>>

TickDiffFloor(endTime, t) == (endTime - t) \div 1000

\* const diff = Math.ceil((focusEndTime - now) / 1000)
TickDiff(endTime, t) == MathCeilDiv(endTime - t, 1000)

SameModeAgain(mode) == mode

\* completedMode === 'focus' ? 'break' : 'focus'
NextMode(mode) == IF mode = "focus" THEN "break" ELSE "focus"

\* One firing of the interval callback of the tick effect; the interval
\* exists only while isFocusActive && focusEndTime.
timerTick ==
    /\ isFocusActive
    /\ focusEndTime # <<>>
    /\ timerOp' = Snapshot("tick")
    /\ IF TickDiff(focusEndTime[1], now) <= 0
       THEN /\ switchTimerMode(NextMode(focusModeType), TRUE)
            /\ runStart' = <<>>
       ELSE /\ focusTimeLeft' = TickDiff(focusEndTime[1], now)
            /\ UNCHANGED <<focusEndTime, isFocusActive, focusModeType, runStart>>
    /\ SyncRef
    /\ UNCHANGED <<now, clockSteps, timerEdits>>

(***************************************************************************)
(* Specifications: one per subsystem, the other subsystems at rest         *)
(***************************************************************************)

timerRest == <<parserVars, viewVars, storeVars, heatVars, sanitizerVars, extraVars>>
parserRest == <<timerVars, viewVars, storeVars, heatVars, sanitizerVars, extraVars>>
viewRest == <<timerVars, parserVars, storeVars, heatVars, sanitizerVars, extraVars>>
storeRest == <<timerVars, parserVars, viewVars, heatVars, sanitizerVars, extraVars>>
heatRest == <<timerVars, parserVars, viewVars, storeVars, sanitizerVars, extraVars>>
sanitizerRest == <<timerVars, parserVars, viewVars, storeVars, heatVars, extraVars>>

NextTimer ==
    \/ \E d \in ClockAdvances : AdvanceClock(d) /\ UNCHANGED timerRest
    \/ startTimer /\ UNCHANGED timerRest
    \/ pauseTimer /\ UNCHANGED timerRest
    \/ resetTimer /\ UNCHANGED timerRest
    \/ \E m \in AdjustDeltas : adjustTime(m) /\ UNCHANGED timerRest
    \/ \E p \in Presets : setPreset(p) /\ UNCHANGED timerRest
    \/ \E m \in Modes : switchMode(m) /\ UNCHANGED timerRest
    \/ timerTick /\ UNCHANGED timerRest

InitTimer ==
    TimerInit /\ ParserIdle /\ ViewIdle /\ StoreIdle /\ HeatIdle /\ SanitizerIdle /\ ExtraIdle

SpecTimer == InitTimer /\ [][NextTimer]_vars

NextParser ==
    \/ ParseInput /\ UNCHANGED parserRest
    \/ ReparseCleanTitle /\ UNCHANGED parserRest

InitParser ==
    ParserInit /\ TimerInit /\ ViewIdle /\ StoreIdle /\ HeatIdle /\ SanitizerIdle /\ ExtraIdle

SpecParser == InitParser /\ [][NextParser]_vars

NextView ==
    \/ \E v \in FilterChoices(viewProjects) : setFilter(v) /\ UNCHANGED viewRest

InitView ==
    ViewInit /\ TimerInit /\ ParserIdle /\ StoreIdle /\ HeatIdle /\ SanitizerIdle /\ ExtraIdle

SpecView == InitView /\ [][NextView]_vars

NextStore ==
    \/ \E text \in SubmitInputs : submit(text) /\ UNCHANGED storeRest
    \/ \E k \in 1..Len(tasks) : performToggle(tasks[k].id) /\ UNCHANGED storeRest
    \/ \E k \in 1..Len(tasks), value \in TitleEdits : editTitle(k, value) /\ UNCHANGED storeRest
    \/ \E k \in 1..Len(tasks), newTag \in NewTags : handleAddTag(k, newTag) /\ UNCHANGED storeRest
    \/ \E k \in 1..Len(tasks) : deleteTask(tasks[k].id) /\ UNCHANGED storeRest
    \/ undo /\ UNCHANGED storeRest
    \/ toastTimeout /\ UNCHANGED storeRest
    \/ handleExport /\ UNCHANGED storeRest
    \/ \E json \in ImportFiles \cup {exportFile[k].json : k \in 1..Len(exportFile)} :
          handleImport(json) /\ UNCHANGED storeRest

InitStore ==
    StoreInit /\ TimerInit /\ ParserIdle /\ ViewIdle /\ HeatIdle /\ SanitizerIdle /\ ExtraIdle

SpecStore == InitStore /\ [][NextStore]_vars

NextHeat ==
    \/ heatToggle /\ UNCHANGED heatRest
    \/ heatMidnight /\ UNCHANGED heatRest

InitHeat ==
    HeatInit /\ TimerInit /\ ParserIdle /\ ViewIdle /\ StoreIdle /\ SanitizerIdle /\ ExtraIdle

SpecHeat == InitHeat /\ [][NextHeat]_vars

NextSanitizer ==
    \/ runSanitizer /\ UNCHANGED sanitizerRest

projectRest == <<timerVars, parserVars, viewVars, storeVars, heatVars, sanitizerVars,
                 updaterVars, persistVars>>
updaterRest == <<timerVars, parserVars, viewVars, storeVars, heatVars, sanitizerVars,
                 projectVars, persistVars>>
persistRest == <<timerVars, parserVars, viewVars, storeVars, heatVars, sanitizerVars,
                 projectVars, updaterVars>>

NextProject ==
    \/ \E name \in ProjectNames : addProject(name) /\ UNCHANGED projectRest
    \/ \E k \in 1..Len(projectList) : deleteProject(projectList[k]) /\ UNCHANGED projectRest
    \/ undoProject /\ UNCHANGED projectRest
    \/ projectToastTimeout /\ UNCHANGED projectRest
    \/ \E k \in 1..Len(projTasks), list \in MoveTargets :
          moveTask(k, list) /\ UNCHANGED projectRest
    \/ \E k \in 1..Len(projTasks) : toggleProjectTask(k) /\ UNCHANGED projectRest
    \/ \E j \in 1..Len(projectList) : selectProjectFilter(projectList[j]) /\ UNCHANGED projectRest
    \/ \E file \in ProjectFiles : readerOnload(file) /\ UNCHANGED projectRest

InitProject ==
    ProjectInit /\ TimerInit /\ ParserIdle /\ ViewIdle /\ StoreIdle /\ HeatIdle /\ SanitizerIdle
        /\ UpdaterIdle /\ PersistIdle

updaterMainFrame == <<rendererRefs, isCheckingDesktopUpdate, confirmDialog, pendingTimers,
                      manualChecks, promptLog>>

NextUpdater ==
    \/ \E arrives \in BOOLEAN : initialTimer(arrives) /\ UNCHANGED updaterRest
    \/ \E arrives \in BOOLEAN : retryTimer(arrives) /\ UNCHANGED updaterRest
    \/ \E arrives \in BOOLEAN : requestDesktopUpdateCheck(arrives) /\ UNCHANGED updaterRest
    \/ \E outcome \in {"available", "not-available", "error"}, version \in Versions :
          checkForUpdatesSettles(outcome, version) /\ UNCHANGED <<updaterMainFrame, updaterRest>>
    \/ \E succeeds \in BOOLEAN :
          downloadUpdateSettles(succeeds) /\ UNCHANGED <<updaterMainFrame, updaterRest>>
    \/ \E outcome \in {"ok", "failed", "not-in-applications"} :
          externalInstallSettles(outcome) /\ UNCHANGED <<updaterMainFrame, updaterRest>>
    \/ onStatus /\ UNCHANGED updaterRest
    \/ ipcReplyArrives /\ UNCHANGED updaterRest
    \/ \E kind \in {"confirm", "cancel"} : runConfirmAction(kind, TRUE) /\ UNCHANGED updaterRest

\* what the updater does by itself, once asked: tasks settle, messages
\* arrive, and the user answers the prompt that is open
UpdaterProgress ==
    \/ \E outcome \in {"available", "not-available", "error"}, version \in Versions :
          checkForUpdatesSettles(outcome, version) /\ UNCHANGED <<updaterMainFrame, updaterRest>>
    \/ \E succeeds \in BOOLEAN :
          downloadUpdateSettles(succeeds) /\ UNCHANGED <<updaterMainFrame, updaterRest>>
    \/ \E outcome \in {"ok", "failed", "not-in-applications"} :
          externalInstallSettles(outcome) /\ UNCHANGED <<updaterMainFrame, updaterRest>>
    \/ onStatus /\ UNCHANGED updaterRest
    \/ ipcReplyArrives /\ UNCHANGED updaterRest
    \/ \E kind \in {"confirm", "cancel"} : runConfirmAction(kind, TRUE) /\ UNCHANGED updaterRest

InitUpdater ==
    UpdaterInit /\ TimerInit /\ ParserIdle /\ ViewIdle /\ StoreIdle /\ HeatIdle /\ SanitizerIdle
        /\ ProjectIdle /\ PersistIdle

SpecUpdater == InitUpdater /\ [][NextUpdater]_vars

\* the main process and the event loop of the renderer keep running, and
\* the user answers every prompt
SpecUpdaterFair == SpecUpdater /\ WF_vars(UpdaterProgress)

SpecProject == InitProject /\ [][NextProject]_vars

NextPersist ==
    \/ \E next \in PersistLists : setTasks(next) /\ UNCHANGED persistRest
    \/ clearAllLocalData /\ UNCHANGED persistRest
    \/ \E captured \in persistTimers, stored \in BOOLEAN :
          persistTimerFires(captured, stored) /\ UNCHANGED persistRest

\* a timeout that is pending fires
PersistTimeout ==
    \E captured \in persistTimers, stored \in BOOLEAN :
        persistTimerFires(captured, stored) /\ UNCHANGED persistRest

InitPersist ==
    PersistInit /\ TimerInit /\ ParserIdle /\ ViewIdle /\ StoreIdle /\ HeatIdle /\ SanitizerIdle
        /\ ProjectIdle /\ UpdaterIdle

SpecPersist == InitPersist /\ [][NextPersist]_vars

\* the event loop keeps running: a pending timeout is not left waiting
SpecPersistFair == SpecPersist /\ WF_vars(PersistTimeout)

InitSanitizer ==
    SanitizerInit /\ TimerInit /\ ParserIdle /\ ViewIdle /\ StoreIdle /\ HeatIdle /\ ExtraIdle

SpecSanitizer == InitSanitizer /\ [][NextSanitizer]_vars

(***************************************************************************)
(* Command parser: properties                                              *)
(***************************************************************************)

\* C6: parsing the clean title of any parse extracts no token: no priority,
\* no tag, no project, no due date, and the clean title comes back unchanged.
C6_ReparseExtractsNothing ==
    parseStage = "reparsed" =>
        /\ reparsedData.priority = <<>>
        /\ reparsedData.tags = <<>>
        /\ reparsedData.projectFound = <<>>
        /\ reparsedData.dueDate = <<>>
        /\ reparsedData.cleanTitle = parsedData.cleanTitle

\* the marker (lower case) stands in the input at position i
MarkerAt(i, marker) == StartsWithAt(input, i, marker)

\* a priority marker of any casing stands in the input at position i
AnyMarkerAt(i) ==
    \E word \in {PriorityWords[k] : k \in 1..3} :
        StartsWithAt(toLowerCase(input), i, <<"!">> \o word)

HighMarker == <<"!", "h", "i", "g", "h">>

\* C11 (as stated): every input that contains !high parses to priority HIGH,
\* whatever precedes or follows the marker.
C11_HighMarkerAlwaysHigh ==
    (parseStage = "parsed" /\ \E i \in 1..Len(input) : MarkerAt(i, HighMarker))
        => parsedData.priority = <<Priority.HIGH>>

\* C11 (amended): every input in which !high stands before any other
\* priority marker parses to priority HIGH, whatever else precedes or
\* follows it.
C11_FirstMarkerHighIsHigh ==
    (parseStage = "parsed"
       /\ \E i \in 1..Len(input) :
             MarkerAt(i, HighMarker) /\ \A j \in 1..(i - 1) : ~AnyMarkerAt(j))
        => parsedData.priority = <<Priority.HIGH>>

\* !high stands first and another marker follows it
C11_Witness ==
    /\ parseStage = "parsed"
    /\ MarkerAt(1, HighMarker)
    /\ AnyMarkerAt(6)
    /\ parsedData.priority = <<Priority.HIGH>>

\* the #token that ends at a token boundary stands in the input at position i
TagTokenAt(i, tag) ==
    /\ StartsWithAt(input, i, <<"#">> \o tag)
    /\ (i + Len(tag) = Len(input) \/ ~IsTokenChar(input[i + Len(tag) + 1]))

FirstTagPosition(tag) == SetMin({i \in 1..Len(input) : TagTokenAt(i, tag)})

\* C12: the parsed tags hold each #token once under case-insensitive
\* comparison, with the casing of its first occurrence, in the order of
\* first occurrence in the input.
C12_TagsUniqueIgnoringCase ==
    parseStage = "parsed" =>
        /\ \A i, j \in 1..Len(parsedData.tags) :
              i < j => toLowerCase(parsedData.tags[i]) # toLowerCase(parsedData.tags[j])
        /\ \A i \in 1..Len(parsedData.tags) :
              \E at \in 1..Len(input) : TagTokenAt(at, parsedData.tags[i])
        /\ \A i, j \in 1..Len(parsedData.tags) :
              i < j => FirstTagPosition(parsedData.tags[i]) < FirstTagPosition(parsedData.tags[j])

\* next week is the date rule that applies to the input
NextWeekRuleApplies ==
    /\ ~TestWords(toLowerCase(input), TodayWords)
    /\ ~TestWords(toLowerCase(input), TomorrowWords)
    /\ TestWords(toLowerCase(input), NextWeekWords)

\* C20: when next week is the rule that applies, the due date is the first
\* Monday strictly after today: 7 days ahead on a Monday, otherwise 1 to 6
\* days ahead, for every weekday of today.
C20_NextWeekIsNextMonday ==
    (parseStage = "parsed" /\ NextWeekRuleApplies) =>
        /\ parsedData.dueDate # <<>>
        /\ (weekday + parsedData.dueDate[1]) % 7 = 1
        /\ IF weekday = 1 THEN parsedData.dueDate[1] = 7
           ELSE parsedData.dueDate[1] \in 1..6

\* next week typed on a Monday
C20_Witness ==
    /\ parseStage = "parsed"
    /\ NextWeekRuleApplies
    /\ weekday = 1
    /\ parsedData.dueDate = <<7>>

(***************************************************************************)
(* Focus timer: properties                                                 *)
(***************************************************************************)

\* The last handler was a tick that found the countdown not yet over.
TickedBeforeEnd ==
    /\ timerOp.name = "tick"
    /\ timerOp.preEnd # <<>>
    /\ timerOp.preEnd[1] - now > 0

\* The last handler was a tick that found the countdown over.
TickedAtEnd ==
    /\ timerOp.name = "tick"
    /\ timerOp.preEnd # <<>>
    /\ timerOp.preEnd[1] - now <= 0

\* C1: a tick processed at time now with endTimestamp - now > 0 leaves
\* remaining = ceil((endTimestamp - now) / 1000), a value fixed by
\* endTimestamp and now alone, whatever ticks came before.
C1_TickDerivesRemaining ==
    TickedBeforeEnd =>
        /\ (focusTimeLeft - 1) * 1000 < timerOp.preEnd[1] - now
        /\ timerOp.preEnd[1] - now <= focusTimeLeft * 1000

\* A late tick: the time to the end is not a whole number of seconds.
C1_Witness ==
    /\ TickedBeforeEnd
    /\ (timerOp.preEnd[1] - now) % 1000 = 500
    /\ isFocusActive

\* C2: from Idle with remaining = 1500, start(), 1499 seconds, pause() ends
\* in Idle with remaining = 1, whatever ticks were delivered in between.
C2_PauseRecomputesRemaining ==
    ( /\ timerOp.name = "pause"
      /\ timerOp.preActive
      /\ runStart # <<>>
      /\ runStart[1].left = 1500
      /\ now - runStart[1].at = 1499000 )
    => (~isFocusActive /\ focusTimeLeft = 1)

\* C3: a tick that finds endTimestamp - now <= 0 switches to the opposite
\* mode and leaves the timer Running with the new mode's default duration
\* (1500 s Focus, 300 s Break) and endTimestamp = now + that duration.
C3_CompletionSwitchesAndRestarts ==
    TickedAtEnd =>
        /\ focusModeType # timerOp.preMode
        /\ isFocusActive
        /\ focusTimeLeft = (IF focusModeType = "focus" THEN 1500 ELSE 300)
        /\ focusEndTime = <<now + 1000 * focusTimeLeft>>

\* A break that ran out half a second ago hands over to a focus session.
C3_Witness ==
    /\ TickedAtEnd
    /\ timerOp.preEnd[1] < now
    /\ timerOp.preMode = "break"
    /\ focusModeType = "focus"

\* C4: endTimestamp is present if and only if the timer is running.
C4_EndTimeIffRunning == (focusEndTime # <<>>) <=> isFocusActive

\* A running countdown was paused: the end time went with it.
C4_Witness ==
    /\ timerOp.name = "pause"
    /\ timerOp.preActive
    /\ timerOp.preEnd # <<>>
    /\ ~isFocusActive

\* C21: start() while the timer is Running changes nothing: endTimestamp,
\* remaining and mode keep their values, also when the call comes right
\* after the timer went Running (no clock advance in between).
C21_StartWhileRunningIsNoOp ==
    (timerOp.name = "start" /\ timerOp.preActive) =>
        /\ focusEndTime = timerOp.preEnd
        /\ focusTimeLeft = timerOp.preLeft
        /\ focusModeType = timerOp.preMode
        /\ isFocusActive

\* start() half a second into a countdown
C21_Witness ==
    /\ timerOp.name = "start"
    /\ timerOp.preActive
    /\ focusEndTime # <<>>
    /\ focusEndTime[1] - now < focusTimeLeft * 1000

\* C22: from any state, Idle or Running, whatever remaining and the mode
\* are, reset() leaves the timer Idle with remaining at the default of the
\* current mode (1500 s Focus, 300 s Break) and the mode unchanged.
C22_ResetRestoresDefault ==
    timerOp.name = "reset" =>
        /\ ~isFocusActive
        /\ focusEndTime = <<>>
        /\ focusModeType = timerOp.preMode
        /\ focusTimeLeft = (IF timerOp.preMode = "focus" THEN 1500 ELSE 300)

\* reset() of a running break that was not at its default
C22_Witness ==
    /\ timerOp.name = "reset"
    /\ timerOp.preActive
    /\ timerOp.preMode = "break"
    /\ timerOp.preLeft # 300
    /\ focusTimeLeft = 300

\* C23: adjust(deltaMinutes) while the timer is Running changes neither
\* remaining nor endTimestamp, for every delta.
C23_AdjustWhileRunningIsNoOp ==
    (timerOp.name = "adjust" /\ timerOp.preActive) =>
        /\ focusTimeLeft = timerOp.preLeft
        /\ focusEndTime = timerOp.preEnd
        /\ isFocusActive

\* an adjustment asked for while a countdown runs
C23_Witness ==
    /\ timerOp.name = "adjust"
    /\ timerOp.preActive
    /\ timerOp.preEnd # <<>>
    /\ focusEndTime = timerOp.preEnd

(***************************************************************************)
(* View engine: properties                                                 *)
(***************************************************************************)

\* C7: for inbox, today, next7days and every known project, the count of
\* countsByView equals the number of tasks filterTasks returns for that view.
C7_CountsEqualFilterLengths ==
    \A v \in {"inbox", "today", "next7days"}
              \cup {viewProjects[k] : k \in 1..Len(viewProjects)} :
        taskCounts[v] = Len(getFilteredTasks(viewTasks, v, viewProjects, today))

\* two tasks tie on completion, priority and the due-date rule
TieBeforeCreatedAt(a, b) ==
    /\ a.completed = b.completed
    /\ a.priority = b.priority
    /\ a.dueDate = b.dueDate

\* C8: in the output of filterTasks, two tasks that tie on completion,
\* priority and due date (both undated or the same date) come in createdAt
\* descending order.
C8_TiesOrderedByCreatedAtDescending ==
    \A i, j \in 1..Len(filteredTasks) :
        (i < j /\ TieBeforeCreatedAt(filteredTasks[i], filteredTasks[j]))
            => filteredTasks[i].createdAt >= filteredTasks[j].createdAt

\* the day a due date falls on, as a day number
DueDay(task) == DateOfIso(task.dueDate[1])

\* the ids of the tasks of a sequence
IdsOf(taskSeq) == {taskSeq[k].id : k \in 1..Len(taskSeq)}

\* C13: the next7days view returns exactly the tasks that are incomplete,
\* have a due date and are due on or before today + 7 days; an incomplete
\* task without a due date is never included.
C13_Next7DaysMembership ==
    filter = "next7days" =>
        /\ IdsOf(filteredTasks) =
              {viewTasks[k].id : k \in {j \in 1..Len(viewTasks) :
                    /\ ~viewTasks[j].completed
                    /\ viewTasks[j].dueDate # <<>>
                    /\ DueDay(viewTasks[j]) <= today + 7}}
        /\ Cardinality(IdsOf(filteredTasks)) = Len(filteredTasks)
        /\ \A k \in 1..Len(filteredTasks) : filteredTasks[k] = viewTasks[filteredTasks[k].id]

\* a task due on the horizon day is shown, one due the day after is not
C13_Witness ==
    /\ filter = "next7days"
    /\ Len(filteredTasks) = 1
    /\ DueDay(filteredTasks[1]) = today + 7
    /\ \E k \in 1..Len(viewTasks) :
          /\ ~viewTasks[k].completed
          /\ viewTasks[k].dueDate # <<>>
          /\ DueDay(viewTasks[k]) = today + 8

\* how often the task with the id occurs in a sequence
Occurrences(taskSeq, id) == Cardinality({k \in 1..Len(taskSeq) : taskSeq[k].id = id})

\* the bucket the claim gives a task
BucketOf(task) ==
    IF task.dueDate = <<>> THEN "Next7Days"
    ELSE IF DueDay(task) < today THEN "Overdue"
    ELSE IF DueDay(task) = today THEN "Today"
    ELSE IF DueDay(task) = today + 1 THEN "Tomorrow"
    ELSE "Next7Days"

\* C14: groupForDashboard puts every input task in exactly one bucket,
\* Overdue iff due before today, Today iff due today, Tomorrow iff due
\* today + 1, Next7Days otherwise, and the buckets hold nothing else.
C14_DashboardPartition ==
    taskGroups # <<>> =>
        /\ \A k \in 1..Len(filteredTasks) :
              \A bucket \in {"Overdue", "Today", "Tomorrow", "Next7Days"} :
                  Occurrences(taskGroups[1][bucket], filteredTasks[k].id)
                      = IF bucket = BucketOf(filteredTasks[k]) THEN 1 ELSE 0
        /\ \A bucket \in {"Overdue", "Today", "Tomorrow", "Next7Days"} :
              \A k \in 1..Len(taskGroups[1][bucket]) :
                  \E j \in 1..Len(filteredTasks) : filteredTasks[j] = taskGroups[1][bucket][k]

\* an overdue task and one due today are grouped
C14_Witness ==
    /\ taskGroups # <<>>
    /\ Len(taskGroups[1].Overdue) = 1
    /\ Len(taskGroups[1].Today) = 1
    /\ Len(filteredTasks) = 2

\* two tasks agree on completion, priority, due date and createdAt
SameSortKey(a, b) ==
    /\ a.completed = b.completed
    /\ a.priority = b.priority
    /\ a.dueDate = b.dueDate
    /\ a.createdAt = b.createdAt

\* C15: two tasks with the same completion state, priority, due date and
\* createdAt come out of filterTasks in the order they had in the input
\* (a task's id is its position in the input).
C15_SortIsStable ==
    \A i, j \in 1..Len(filteredTasks) :
        (i < j /\ SameSortKey(filteredTasks[i], filteredTasks[j]))
            => filteredTasks[i].id < filteredTasks[j].id

\* two such tasks are shown, after the view was changed
C15_Witness ==
    /\ filter = "all"
    /\ Len(filteredTasks) = 2
    /\ SameSortKey(filteredTasks[1], filteredTasks[2])
    /\ filteredTasks[1].dueDate # <<>>

(***************************************************************************)
(* Task store: properties                                                  *)
(***************************************************************************)

\* C5: after a load or import through the sanitizer and after every add,
\* toggle and edit, every task of the list has completedAt set if and only
\* if it is completed.
C5_CompletedAtIffCompleted ==
    \A k \in 1..Len(tasks) : (tasks[k].completedAt # <<>>) <=> tasks[k].completed

\* two task lists are equal but for the ids the sanitizer rekeyed
EqualSaveRekeyed(sanitized, original) ==
    /\ Len(sanitized) = Len(original)
    /\ \A k \in 1..Len(original) :
          /\ [sanitized[k] EXCEPT !.id = <<>>] = [original[k] EXCEPT !.id = <<>>]
          /\ \/ sanitized[k].id = original[k].id
             \/ \E j \in 1..(k - 1) : original[j].id = original[k].id

\* C10: serializing a task list the application holds and sanitizing the
\* parsed result gives the same tasks in the same order with the same
\* field values, save for rekeyed duplicate ids.
C10_ExportSanitizeRoundTrip ==
    exportFile # <<>> =>
        EqualSaveRekeyed(sanitizeTaskList(exportFile[1].json, taskNow, nextId).tasks,
                         exportFile[1].tasks)

\* how often a record stands in a list
CountIn(taskSeq, task) == Cardinality({k \in 1..Len(taskSeq) : taskSeq[k] = task})

SameTasks(listA, listB) ==
    \A task \in {listA[k] : k \in 1..Len(listA)} \cup {listB[k] : k \in 1..Len(listB)} :
        CountIn(listA, task) = CountIn(listB, task)

FileItems == sanitizeInput[2]
Sanitized == sanitizeOutput[1].tasks

\* an item is a record with a title that is a string and not blank
WellFormed(raw) ==
    /\ raw[1] = "object"
    /\ raw[2].title[1] = "string"
    /\ \E k \in 1..Len(raw[2].title[2]) : raw[2].title[2][k] # " "

WellFormedItems == {i \in 1..Len(FileItems) : WellFormed(FileItems[i])}

\* the item a returned task was made from: its createdAt is the position
SourceOf(task) == task.createdAt

\* the item carries an id of its own
HasOwnId(i) ==
    /\ FileItems[i][2].id[1] = "string"
    /\ \E k \in 1..Len(FileItems[i][2].id[2]) : FileItems[i][2].id[2][k] # " "

\* an earlier record that is kept carries the same id
RepeatsEarlierId(i) ==
    \E j \in WellFormedItems : j < i /\ HasOwnId(j) /\ FileItems[j][2].id = FileItems[i][2].id

FileIds == {FileItems[i][2].id[2] : i \in {j \in WellFormedItems : HasOwnId(j)}}

C17_MalformedRecordsDropped ==
    (sanitizeOutput # <<>> /\ IsArray(sanitizeInput)) =>
        /\ ~sanitizeOutput[1].threw
        /\ {SourceOf(Sanitized[k]) : k \in 1..Len(Sanitized)} = WellFormedItems
        /\ \A k, l \in 1..Len(Sanitized) :
              k < l => SourceOf(Sanitized[k]) < SourceOf(Sanitized[l])

\* a malformed record between two well-formed ones
C17_Witness ==
    /\ sanitizeOutput # <<>>
    /\ IsArray(sanitizeInput)
    /\ Len(FileItems) = 3
    /\ WellFormedItems = {1, 3}
    /\ Len(Sanitized) = 2

(***************************************************************************)
(* Contribution heatmap: properties                                        *)
(***************************************************************************)

\* the completion map has an entry for the day
HasDay(day) == toLocalIsoDate(day) \in DOMAIN heatStats.completionMap

\* the number of consecutive days with an entry that end with the day
RunEnding(day) ==
    LET runs == {n \in 0..(day - 1) : \A i \in 0..(n - 1) : HasDay(day - i)}
    IN CHOOSE n \in runs : \A m \in runs : m <= n

\* the completion map of the example, {day0, day1, day2, day4}, day0 being day
ExampleMapFrom(day) ==
    /\ DOMAIN heatStats.completionMap =
          {toLocalIsoDate(day), toLocalIsoDate(day + 1), toLocalIsoDate(day + 2),
           toLocalIsoDate(day + 4)}
    /\ heatStats.today = day + 5

ExampleDaysFrom(day) ==
    DOMAIN heatStats.completionMap =
        {toLocalIsoDate(day), toLocalIsoDate(day + 1), toLocalIsoDate(day + 2),
         toLocalIsoDate(day + 4)}

\* C19: the longest streak is the greatest length of a run of consecutive
\* calendar days that are all keys of the completion map, over every day
\* recorded (0 for an empty map); for {day0, day1, day2, day4} it is 3.
C19_LongestStreakIsLongestRun ==
    /\ \A day \in 1..Len(Calendar) : RunEnding(day) <= heatStats.maxStreak
    /\ \E day \in 1..Len(Calendar) : RunEnding(day) = heatStats.maxStreak
    /\ \A day \in 1..(Len(Calendar) - 4) :
          ExampleDaysFrom(day) => heatStats.maxStreak = 3

C19_Witness ==
    /\ ExampleDaysFrom(2)
    /\ heatStats.maxStreak = 3

(***************************************************************************)
(* Projects: properties                                                    *)
(***************************************************************************)

NamesOf(seq) == {seq[k] : k \in 1..Len(seq)}

\* C25: the undo of a project deletion restores only the deleted project
\* and the list field of the tasks the deletion moved to Inbox: every
\* project there before the undo is still there, the deleted one is back
\* and no other appears; every task keeps all its fields but, for a moved
\* task, list, which names the deleted project again.
C25_ProjectUndoRestoresOnlyDeletion ==
    projOp.name = "undo" =>
        LET offered == projOp.undo[1]
        IN /\ NamesOf(projectList) = NamesOf(projOp.preProjects) \cup {offered.projectToDelete}
           /\ Len(projTasks) = Len(projOp.preTasks)
           /\ \A k \in 1..Len(projTasks) :
                 IF projOp.preTasks[k].id \in offered.tasksToMoveIds
                 THEN /\ projTasks[k].list = offered.projectToDelete
                      /\ [projTasks[k] EXCEPT !.list = INBOX] =
                         [projOp.preTasks[k] EXCEPT !.list = INBOX]
                 ELSE projTasks[k] = projOp.preTasks[k]

\* a moved task was completed between the deletion and the undo, and the
\* undo brought the project and the list of the task back
C25_Witness ==
    /\ projOp.name = "undo"
    /\ ~Includes(projOp.preProjects, projOp.undo[1].projectToDelete)
    /\ Includes(projectList, projOp.undo[1].projectToDelete)
    /\ \E k \in 1..Len(projTasks) :
          /\ projTasks[k].id \in projOp.undo[1].tasksToMoveIds
          /\ projTasks[k].completed
          /\ projOp.preTasks[k].list = INBOX
          /\ projTasks[k].list = projOp.undo[1].projectToDelete

\* the file the last import read, and whether it holds a valid record
ImportedFile == projOp.file[1]

HoldsValidRecord(file) ==
    /\ file # SyntaxError
    /\ IsArray(file)
    /\ \E i \in 1..Len(file[2]) : WellFormed(file[2][i])

\* C26: an import of a file that is no valid JSON, whose top-level value is
\* no array or that yields no valid task record leaves the task list and
\* the project list as they were and sets an import error message; the
\* task list is replaced only when at least one valid record was read.
C26_RejectedImportChangesNothing ==
    projOp.name = "import" =>
        IF HoldsValidRecord(ImportedFile)
        THEN /\ importError = ""
             /\ Len(projTasks) = Cardinality({i \in 1..Len(ImportedFile[2]) :
                                                WellFormed(ImportedFile[2][i])})
        ELSE /\ projTasks = projOp.preTasks
             /\ projectList = projOp.preProjects
             /\ importError # ""

\* a file of records none of which is valid was turned down
C26_Witness ==
    /\ projOp.name = "import"
    /\ IsArray(ImportedFile)
    /\ Len(ImportedFile[2]) = 2
    /\ ~HoldsValidRecord(ImportedFile)
    /\ projTasks = projOp.preTasks
    /\ Len(projTasks) > 0
    /\ importError = "No valid tasks found in this file"

(***************************************************************************)
(* Properties of the desktop updater                                       *)
(***************************************************************************)

\* C27: whenever isCheckingDesktopUpdate becomes true it eventually returns
\* to false, the main process settling every task, every message being
\* delivered and the user answering every prompt.
C27_CheckingEventuallyEnds == isCheckingDesktopUpdate ~> ~isCheckingDesktopUpdate

\* the in-flight marker of an operation, and the operation a reply answers
InFlight(op) ==
    CASE op = "check" -> updaterCheckTask
      [] op = "download" -> updaterDownloadTask
      [] op = "install" -> externalInstallTask

RequestOf(to) == IF to \in {"manual", "background"} THEN "check" ELSE to

\* the step answered a request with 'in-progress'
AnsweredInProgress(op) ==
    /\ Len(ipcQueue') = Len(ipcQueue) + 1
    /\ ipcQueue'[Len(ipcQueue')].kind = "reply"
    /\ ipcQueue'[Len(ipcQueue')].type = "in-progress"
    /\ RequestOf(ipcQueue'[Len(ipcQueue')].to) = op

\* C28: for each of check, download and external install at most one task
\* is in flight: a task starts only when the marker is clear, a request
\* that finds the marker set is answered 'in-progress' and starts nothing,
\* and the marker is set exactly while the task has not settled.
C28_OneTaskInFlight ==
    [][\A op \in UpdaterOps :
          /\ running'[op] \in {0, 1}
          /\ (InFlight(op)' # <<>>) <=> (running'[op] = 1)
          /\ running'[op] > running[op] => InFlight(op) = <<>>
          /\ AnsweredInProgress(op) => InFlight(op) # <<>> /\ running' = running
          /\ (InFlight(op) # <<>> /\ InFlight(op)' = <<>>) =>
                running'[op] = running[op] - 1]_vars

\* a check was requested while another was pending, and answered so
C28_Witness ==
    /\ updaterCheckTask # <<>>
    /\ running["check"] = 1
    /\ \E i \in 1..Len(ipcQueue) :
          ipcQueue[i].kind = "reply" /\ ipcQueue[i].type = "in-progress"

\* C29 as stated: between two 'not-available' statuses the Download prompt
\* is opened at most once for a version.
C29_PromptOncePerVersion ==
    \A i, j \in 1..Len(promptLog) : i # j => promptLog[i] # promptLog[j]

\* C29: between two 'not-available' statuses the Download prompt is not
\* opened twice in a row for the same version, however often 'available'
\* is announced for it; a version is offered again only after a different
\* version was offered in between.
C29_NoRepeatedPrompt ==
    \A i \in 1..Len(promptLog) : i > 1 => promptLog[i] # promptLog[i - 1]

\* a version was announced by the startup check and again by a manual
\* check, 'available' arriving more than once, and the prompt was opened once
C29_Witness ==
    /\ manualChecks = 1
    /\ "initial" \notin pendingTimers
    /\ updaterCheckTask = <<>>
    /\ ipcQueue = <<>>
    /\ Len(promptLog) = 1
    /\ promptedAvailableVersionRef = <<promptLog[1]>>
    /\ isCheckingDesktopUpdate

(***************************************************************************)
(* Properties of the persistence of the task list                          *)
(***************************************************************************)

\* the stored value is what JSON.stringify makes of the in-memory list
StoredIsCurrent == storedTasks = <<JsonOfTasks(memTasks)>>

\* a write never stores a list other than the one in memory
NoStaleWrite ==
    (storedTasks' # storedTasks /\ storedTasks' # <<>>) =>
        storedTasks' = <<JsonOfTasks(memTasks')>>

====
